---- MODULE Spec2Model ----
(***************************************************************************)
(* Session / thread state model of the lattice server: agent resolution    *)
(* per (session, thread), the session model and its default, chat turns    *)
(* that load, merge and persist the thread's message history, and the      *)
(* thread lifecycle routes.                                                *)
(*                                                                         *)
(* Strings are sequences of one-character strings, so that strip(),        *)
(* lower() and substring tests are computed and not assumed.  Python's     *)
(* None is the one-element sequence <<"None">>, which is no string of      *)
(* characters.                                                             *)
(***************************************************************************)
EXTENDS Integers, Sequences, FiniteSets, TLC

VARIABLES registry, env, settings, sessionModel, threads, msgs, turns, resp,
          fs, tui

vars == <<registry, env, settings, sessionModel, threads, msgs, turns, resp,
          fs, tui>>

\* ------------------------------------------------------------- bounds
\* Chat turns started in one behaviour.
MaxTurns == 2

\* Chat turns started in one behaviour next to the thread lifecycle routes.
MaxLifecycleTurns == 1

\* ------------------------------------------------------------ strings
None == <<"None">>

s_empty == <<>>
s_blank == <<" ", " ">>
s_alpha == <<"a", "l", "p", "h", "a">>
s_beta == <<"b", "e", "t", "a">>
s_be == <<"b", "e">>
s_be_padded == <<" ", "b", "e", " ">>
s_Beta == <<"B", "e", "t", "a">>
s_BE == <<"B", "E">>
s_a == <<"a">>
s_zz == <<"z", "z">>
s_gent == <<"g", "e", "n", "t">>
s_Alpha == <<"A", "l", "p", "h", "a">>
s_BetaAgent == <<"B", "e", "t", "a", " ", "A", "g", "e", "n", "t">>
s_BeBot == <<"B", "e", " ", "B", "o", "t">>
s_m1 == <<"m", "1">>
s_m2 == <<"m", "2">>
s_m2_padded == <<" ", "m", "2", " ">>

\* str.lower() on one character.
LowerChar(c) ==
    CASE c = "A" -> "a"
      [] c = "B" -> "b"
      [] c = "E" -> "e"
      [] c = "L" -> "l"
      [] OTHER -> c

\* str.lower()
Lower(s) == [i \in 1..Len(s) |-> LowerChar(s[i])]

IsSpace(c) == c \in {" ", "\n"}

\* str.strip(): drop leading and trailing whitespace.
RECURSIVE LStrip(_)
LStrip(s) == IF s # <<>> /\ IsSpace(Head(s)) THEN LStrip(Tail(s)) ELSE s

RECURSIVE RStrip(_)
RStrip(s) ==
    IF s # <<>> /\ IsSpace(s[Len(s)]) THEN RStrip(SubSeq(s, 1, Len(s) - 1)) ELSE s

Strip(s) == RStrip(LStrip(s))

\* Python's `needle in haystack` on strings.
Contains(haystack, needle) ==
    \E i \in 0..(Len(haystack) - Len(needle)) :
        SubSeq(haystack, i + 1, i + Len(needle)) = needle

\* Python truthiness of an Optional[str].
Truthy(v) == v # None /\ v # <<>>

\* ----------------------------------------------------------- registry
\* An AgentPlugin: its display name, its default_model (None when unset),
\* its list_models capability: absent, answering a list, or raising; and its
\* validate_model capability: absent, or raising for every model it does not
\* accept.
Plugin(name, default_model, list_models, validate_model) ==
    [name |-> name, default_model |-> default_model, list_models |-> list_models,
     validate_model |-> validate_model]

NoListModels == [present |-> FALSE, raises |-> FALSE, models |-> <<>>]
ListModels(models) == [present |-> TRUE, raises |-> FALSE, models |-> models]
ListModelsRaises == [present |-> TRUE, raises |-> TRUE, models |-> <<>>]

NoValidateModel == [present |-> FALSE, accepts |-> {}]
ValidateModel(accepts) == [present |-> TRUE, accepts |-> accepts]

PluginAlpha ==
    Plugin(s_Alpha, None, ListModels(<<s_m1, s_m2>>), ValidateModel({s_m1, s_m2}))
PluginBeta == Plugin(s_BetaAgent, s_m2_padded, NoListModels, NoValidateModel)
PluginBe == Plugin(s_BeBot, None, ListModelsRaises, ValidateModel({s_m1}))

\* An AgentRegistry: the agents mapping, the order its keys were registered
\* in (a dict keeps insertion order) and the default agent.
RegistryAB ==
    [agents |-> (s_alpha :> PluginAlpha) @@ (s_beta :> PluginBeta),
     order |-> <<s_alpha, s_beta>>,
     default_agent |-> s_alpha]

\* The beta plugin was removed.
RegistryA ==
    [agents |-> (s_alpha :> PluginAlpha),
     order |-> <<s_alpha>>,
     default_agent |-> s_alpha]

\* A third plugin whose id is a prefix of another id; another default.
RegistryABBe ==
    [agents |-> (s_alpha :> PluginAlpha) @@ (s_beta :> PluginBeta)
                @@ (s_be :> PluginBe),
     order |-> <<s_alpha, s_beta, s_be>>,
     default_agent |-> s_beta]

Registries == {RegistryAB, RegistryA, RegistryABBe}

\* The default plugin is the one whose list_models raises.
RegistryABe ==
    [agents |-> (s_alpha :> PluginAlpha) @@ (s_be :> PluginBe),
     order |-> <<s_alpha, s_be>>,
     default_agent |-> s_be]

\* The registered agents a query matches without regard to case, by a
\* substring of the id or of the display name.
FuzzyMatches(reg, query) ==
    {id \in DOMAIN reg.agents :
        \/ Contains(Lower(id), Lower(query))
        \/ Contains(Lower(reg.agents[id].name), Lower(query))}

\* The matching agents in the order they were registered.
FuzzyMatchList(reg, query) ==
    LET matches(id) == id \in FuzzyMatches(reg, query)
    IN  SelectSeq(reg.order, matches)

\* resolve_id as it would read if the fuzzy match were tried before the
\* exact id.
resolve_id_fuzzy_first(reg, query, allow_fuzzy) ==
    IF allow_fuzzy
    THEN IF Len(FuzzyMatchList(reg, query)) = 1
         THEN FuzzyMatchList(reg, query)[1]
         ELSE None
    ELSE IF query \in DOMAIN reg.agents THEN query ELSE None

\* resolve_id as it would read if it took the first of several matches.
resolve_id_first_match(reg, query, allow_fuzzy) ==
    IF query \in DOMAIN reg.agents THEN query
    ELSE IF allow_fuzzy /\ Len(FuzzyMatchList(reg, query)) >= 1
         THEN FuzzyMatchList(reg, query)[1]
         ELSE None

\* AgentRegistry.resolve_id(query, allow_fuzzy): the exact id first; with
\* allow_fuzzy the one agent the query matches, None when there is no such
\* agent or more than one.
resolve_id(reg, query, allow_fuzzy) ==
    IF query \in DOMAIN reg.agents THEN query
    ELSE IF allow_fuzzy /\ Len(FuzzyMatchList(reg, query)) = 1
         THEN FuzzyMatchList(reg, query)[1]
         ELSE None

\* -------------------------------------------------------------- store
Sessions == {"s1", "s2"}
Keys == {<<"s1", "t1">>, <<"s1", "t2">>, <<"s2", "t1">>}

\* ThreadSettings.agent values a store may hold when the server starts:
\* nothing, an id, the id of a plugin since removed, a display name, a
\* fragment of an id, an empty or a blank string.
StoredAtStartup == {None, s_alpha, s_beta, s_Beta, s_be, s_empty, s_blank}

\* SessionStore.get_thread_settings(session_id, thread_id).agent
get_thread_settings(st, k) == st[k]

\* SessionStore.set_thread_settings(session_id, thread_id, settings)
set_thread_settings(st, k, agent) == [st EXCEPT ![k] = agent]

\* ------------------------------------------------------- agent routes
\* resolve_agent_plugin as it would read with fuzzy resolution of the
\* stored value.
resolve_agent_plugin_fuzzy(reg, st, k) ==
    LET stored == get_thread_settings(st, k)
        resolved == IF Truthy(stored) THEN resolve_id(reg, stored, TRUE) ELSE None
    IN  IF Truthy(stored) /\ Truthy(resolved)
        THEN <<resolved, reg.agents[resolved]>>
        ELSE <<reg.default_agent, reg.agents[reg.default_agent]>>

\* resolve_agent_plugin as it would read if it trusted the stored id without
\* asking the registry.
resolve_agent_plugin_trusting(reg, st, k) ==
    LET stored == get_thread_settings(st, k)
    IN  IF Truthy(stored)
        THEN <<stored, IF stored \in DOMAIN reg.agents THEN reg.agents[stored]
                       ELSE reg.agents[reg.default_agent]>>
        ELSE <<reg.default_agent, reg.agents[reg.default_agent]>>

\* resolve_agent_plugin as it would read if it never read the thread's
\* settings.
resolve_agent_plugin_default(reg, st, k) ==
    <<reg.default_agent, reg.agents[reg.default_agent]>>

\* resolve_agent_plugin(ctx, session_id, thread_id) -> (agent_id, plugin)
resolve_agent_plugin(reg, st, k) ==
    LET stored == get_thread_settings(st, k)
        resolved == IF Truthy(stored) THEN resolve_id(reg, stored, FALSE) ELSE None
    IN  IF Truthy(stored) /\ Truthy(resolved)
        THEN <<resolved, reg.agents[resolved]>>
        ELSE <<reg.default_agent, reg.agents[reg.default_agent]>>

\* The ThreadAgentResponse of a successful agent route.
ThreadAgentResponse(op, k, requested, agent, default_agent, agent_name) ==
    [op |-> op, key |-> k, requested |-> requested, status |-> 200,
     agent |-> agent, default_agent |-> default_agent,
     is_default |-> (agent = default_agent), agent_name |-> agent_name]

\* GET .../agent as it would read if the handler fetched the registry anew
\* for the resolution after it had read default_agent, with a replacement
\* landing in between.
api_get_thread_agent_torn(k) ==
    \E reg \in Registries :
        LET default_agent == registry.default_agent
            r == resolve_agent_plugin(reg, settings, k)
        IN  /\ resp' = ThreadAgentResponse("get_thread_agent", k, None, r[1],
                                           default_agent, r[2].name)
            /\ UNCHANGED <<fs, tui, registry, env, settings, sessionModel, threads, msgs, turns>>

\* GET /sessions/{session_id}/threads/{thread_id}/agent
api_get_thread_agent(k) ==
    LET default_agent == registry.default_agent
        r == resolve_agent_plugin(registry, settings, k)
    IN  /\ resp' = ThreadAgentResponse("get_thread_agent", k, None, r[1],
                                       default_agent, r[2].name)
        /\ UNCHANGED <<fs, tui, registry, env, settings, sessionModel, threads, msgs, turns>>

\* payload.agent values sent to PUT .../agent
Requested ==
    {None, s_empty, s_blank, s_alpha, s_beta, s_be, s_be_padded, s_Beta, s_BE,
     s_a, s_zz, s_gent}

\* `requested = (payload.agent or "").strip() if payload.agent is not None else None`
StripRequested(agent) == IF agent = None THEN None ELSE Strip(agent)

\* api_set_thread_agent as it would read if it stored the text the client
\* sent in place of the id it resolved.
SetThreadAgentStore_raw(reg, st, k, agent) ==
    LET requested == StripRequested(agent)
        resolved == resolve_id(reg, requested, TRUE)
    IN  IF Truthy(requested)
        THEN IF resolved = None THEN st
             ELSE set_thread_settings(st, k, requested)
        ELSE set_thread_settings(st, k, None)

\* api_set_thread_agent as it would read if it wrote the settings before it
\* looked at the result of the resolution.
SetThreadAgentStore_early(reg, st, k, agent) ==
    LET requested == StripRequested(agent)
        resolved == resolve_id(reg, requested, TRUE)
    IN  IF Truthy(requested)
        THEN set_thread_settings(st, k, resolved)
        ELSE set_thread_settings(st, k, None)

\* api_set_thread_agent as it would read if a blank request wrote nothing
\* and only answered the default.
SetThreadAgentStore_keep(reg, st, k, agent) ==
    LET requested == StripRequested(agent)
        resolved == resolve_id(reg, requested, TRUE)
    IN  IF Truthy(requested)
        THEN IF resolved = None THEN st
             ELSE set_thread_settings(st, k, resolved)
        ELSE st

\* The thread settings api_set_thread_agent leaves in the store: the
\* resolved id, None for a blank request, nothing written when the route
\* raises.
SetThreadAgentStore(reg, st, k, agent) ==
    LET requested == StripRequested(agent)
        resolved == resolve_id(reg, requested, TRUE)
    IN  IF Truthy(requested)
        THEN IF resolved = None THEN st
             ELSE set_thread_settings(st, k, resolved)
        ELSE set_thread_settings(st, k, None)

\* PUT /sessions/{session_id}/threads/{thread_id}/agent
api_set_thread_agent(k, agent) ==
    LET default_agent == registry.default_agent
        requested == StripRequested(agent)
        resolved == resolve_id(registry, requested, TRUE)
        selected == IF Truthy(requested) THEN resolved ELSE default_agent
    IN  /\ settings' = SetThreadAgentStore(registry, settings, k, agent)
        /\ IF Truthy(requested) /\ resolved = None
           THEN /\ resp' = [op |-> "set_thread_agent", key |-> k,
                            requested |-> agent, status |-> 400]
                /\ threads' = threads
           ELSE /\ resp' = ThreadAgentResponse("set_thread_agent", k, agent,
                               selected, default_agent,
                               registry.agents[selected].name)
                /\ threads' = threads \cup {k}
        /\ UNCHANGED <<fs, tui, registry, env, sessionModel, msgs, turns>>

\* The server is started again on the same store with another plugin set:
\* a new AppContext with a new registry.
RestartServer(reg) ==
    /\ reg # registry
    /\ registry' = reg
    /\ resp' = [op |-> "restart", status |-> 200]
    /\ UNCHANGED <<fs, tui, env, settings, sessionModel, threads, msgs, turns>>

\* The registry is replaced while the server runs: a new AppContext with a
\* new registry object is swapped in as a whole; requests in flight keep
\* the context they were given.
replace_registry(reg) ==
    /\ reg # registry
    /\ registry' = reg
    /\ resp' = [op |-> "replace_registry", status |-> 200]
    /\ UNCHANGED <<fs, tui, env, settings, sessionModel, threads, msgs, turns>>

\* -------------------------------------------------------------- models
\* `a or b` on Optional[str] values.
Or(a, b) == IF Truthy(a) THEN a ELSE b

\* An exception on its way up the stack, where a value was expected.
Raised == <<"Raised">>

\* list(plugin.list_models()): the list, or the exception it raises.
call_list_models(plugin) ==
    IF plugin.list_models.raises THEN Raised ELSE plugin.list_models.models

\* The guarded listing as it would read without the try / except.
try_list_models_unguarded(plugin) ==
    IF ~plugin.list_models.present THEN <<>> ELSE call_list_models(plugin)

\* `models = []; if plugin.list_models: try: models = list(...) except
\* Exception: models = []`
try_list_models(plugin) ==
    IF ~plugin.list_models.present THEN <<>>
    ELSE IF call_list_models(plugin) = Raised THEN <<>>
    ELSE call_list_models(plugin)

\* server/runtime.py resolve_default_model(plugin): the plugin's default
\* model, else the environment, else the first listed model, else "".
resolve_default_model(e, plugin) ==
    LET configured == Strip(Or(plugin.default_model, <<>>))
        envm == Strip(Or(e.AGENT_MODEL, Or(e.LATTICE_MODEL, <<>>)))
        models == try_list_models(plugin)
    IN  IF configured # <<>> THEN configured
        ELSE IF envm # <<>> THEN envm
        ELSE IF models = Raised THEN Raised
        ELSE IF models # <<>> THEN models[1] ELSE <<>>

\* SessionStore.get_session_model(session_id)
get_session_model(sm, session_id) == sm[session_id]

\* SessionStore.set_session_model(session_id, model)
store_set_session_model(sm, session_id, model) == [sm EXCEPT ![session_id] = model]

\* settings/env.py read_env(name): the stripped value, None when unset or
\* blank.
read_env(e, name) ==
    LET value == e[name]
    IN  IF value = None THEN None
        ELSE IF Strip(value) # <<>> THEN Strip(value) ELSE None

\* settings/env.py first_env(*names)
RECURSIVE first_env(_, _)
first_env(e, names) ==
    IF names = <<>> THEN None
    ELSE IF read_env(e, Head(names)) # None THEN read_env(e, Head(names))
    ELSE first_env(e, Tail(names))

\* services/models.py list_models(plugin)
list_models(plugin) ==
    IF ~plugin.list_models.present THEN <<>>
    ELSE IF call_list_models(plugin) = Raised THEN <<>>
    ELSE call_list_models(plugin)

\* services/models.py resolve_default_model(plugin)
services_resolve_default_model(e, plugin) ==
    LET configured == Strip(Or(plugin.default_model, <<>>))
        env_model == first_env(e, <<"AGENT_MODEL", "LATTICE_MODEL">>)
        models == list_models(plugin)
    IN  IF configured # <<>> THEN configured
        ELSE IF Truthy(env_model) THEN env_model
        ELSE IF models # <<>> THEN models[1] ELSE <<>>

\* services/models.py ModelSelection, with its is_default property
ModelSelection(model, default_model) ==
    [model |-> model, default_model |-> default_model,
     is_default |-> (model = default_model)]

\* select_session_model as it would read if the default came before the
\* stored model.
select_session_model_default_first(sm, e, session_id, plugin) ==
    LET default_model == services_resolve_default_model(e, plugin)
        selected == Or(default_model, get_session_model(sm, session_id))
    IN  ModelSelection(selected, default_model)

\* services/models.py select_session_model(ctx, session_id, plugin)
select_session_model(sm, e, session_id, plugin) ==
    LET default_model == services_resolve_default_model(e, plugin)
        selected == Or(get_session_model(sm, session_id), default_model)
    IN  ModelSelection(selected, default_model)

\* payload.model / requested values sent to the model setters
RequestedModels == {None, s_empty, s_blank, s_m1, s_m2_padded, s_zz}

\* The requested model as it would be taken without `.strip()`.
StripModel_unstripped(requested) == requested

\* `model = (requested or "").strip() if requested is not None else None`
StripModel(requested) == IF requested = None THEN None ELSE Strip(requested)

\* plugin.validate_model(model) is provided and raises.
validate_model_raises(plugin, model) ==
    plugin.validate_model.present /\ model \notin plugin.validate_model.accepts

\* The setter as it would read if it stored the model before validating it.
SetSessionModelStore_early(sm, session_id, plugin, requested) ==
    LET model == StripModel(requested)
    IN  IF Truthy(model)
        THEN store_set_session_model(sm, session_id, model)
        ELSE store_set_session_model(sm, session_id, None)

\* The setter as it would read if a blank request left the override alone.
SetSessionModelStore_noclear(sm, session_id, plugin, requested) ==
    LET model == StripModel(requested)
    IN  IF Truthy(model)
        THEN IF validate_model_raises(plugin, model) THEN sm
             ELSE store_set_session_model(sm, session_id, model)
        ELSE sm

\* The session models set_session_model / api_set_session_model leave in
\* the store: the stripped model once validate_model accepted it, None for a
\* blank request, nothing written when validate_model raises.
SetSessionModelStore(sm, session_id, plugin, requested) ==
    LET model == StripModel(requested)
    IN  IF Truthy(model)
        THEN IF validate_model_raises(plugin, model) THEN sm
             ELSE store_set_session_model(sm, session_id, model)
        ELSE store_set_session_model(sm, session_id, None)

\* services/models.py select_session_model, called for a registered plugin
services_select_session_model(session_id, agent_id) ==
    LET sel == select_session_model(sessionModel, env, session_id,
                                    registry.agents[agent_id])
    IN  /\ resp' = [op |-> "select_session_model", session |-> session_id,
                    plugin |-> agent_id, raised |-> FALSE, model |-> sel.model,
                    default_model |-> sel.default_model,
                    is_default |-> sel.is_default]
        /\ UNCHANGED <<fs, tui, registry, env, settings, sessionModel, threads, msgs, turns>>

\* services/models.py set_session_model(ctx, session_id, plugin, requested)
\*   validated: plugin.validate_model was called.
services_set_session_model(session_id, agent_id, requested) ==
    LET plugin == registry.agents[agent_id]
        default_model == services_resolve_default_model(env, plugin)
        model == StripModel(requested)
        validated == Truthy(model) /\ plugin.validate_model.present
        sel == IF Truthy(model) THEN ModelSelection(model, default_model)
               ELSE ModelSelection(default_model, default_model)
    IN  /\ sessionModel' = SetSessionModelStore(sessionModel, session_id, plugin,
                                                requested)
        /\ resp' = IF Truthy(model) /\ validate_model_raises(plugin, model)
                   THEN [op |-> "set_session_model", session |-> session_id,
                         plugin |-> agent_id, requested |-> requested,
                         raised |-> TRUE, validated |-> validated]
                   ELSE [op |-> "set_session_model", session |-> session_id,
                         plugin |-> agent_id, requested |-> requested,
                         raised |-> FALSE, validated |-> validated,
                         model |-> sel.model, default_model |-> sel.default_model,
                         is_default |-> sel.is_default]
        /\ UNCHANGED <<fs, tui, registry, env, settings, threads, msgs, turns>>

\* GET /models
api_list_models ==
    LET default_plugin == registry.agents[registry.default_agent]
        default_model == resolve_default_model(env, default_plugin)
        models == try_list_models(default_plugin)
    IN  /\ resp' = [op |-> "list_models", status |-> 200,
                    default_model |-> default_model, models |-> models]
        /\ UNCHANGED <<fs, tui, registry, env, settings, sessionModel, threads, msgs, turns>>

\* The SessionModelResponse of a successful model route.
SessionModelResponse(op, session_id, requested, validated, model, default_model) ==
    [op |-> op, session |-> session_id, requested |-> requested, status |-> 200,
     validated |-> validated, model |-> model, default_model |-> default_model,
     is_default |-> (model = default_model)]

\* GET /sessions/{session_id}/model
api_get_session_model(session_id) ==
    LET default_plugin == registry.agents[registry.default_agent]
        default_model == resolve_default_model(env, default_plugin)
        model == Or(get_session_model(sessionModel, session_id), default_model)
    IN  /\ resp' = SessionModelResponse("get_session_model", session_id, None,
                                        FALSE, model, default_model)
        /\ UNCHANGED <<fs, tui, registry, env, settings, sessionModel, threads, msgs, turns>>

\* PUT /sessions/{session_id}/model
api_set_session_model(session_id, requested) ==
    LET default_plugin == registry.agents[registry.default_agent]
        default_model == resolve_default_model(env, default_plugin)
        model == StripModel(requested)
        validated == Truthy(model) /\ default_plugin.validate_model.present
        selected == IF Truthy(model) THEN model ELSE default_model
    IN  /\ sessionModel' = SetSessionModelStore(sessionModel, session_id,
                                                default_plugin, requested)
        /\ resp' = IF Truthy(model) /\ validate_model_raises(default_plugin, model)
                   THEN [op |-> "api_set_session_model", session |-> session_id,
                         requested |-> requested, status |-> 400,
                         validated |-> validated]
                   ELSE SessionModelResponse("api_set_session_model", session_id,
                                             requested, validated, selected,
                                             default_model)
        /\ UNCHANGED <<fs, tui, registry, env, settings, threads, msgs, turns>>

\* ----------------------------------------------------------- messages
Msg(id, role) == [id |-> id, role |-> role]

\* Ids are fresh per turn: turn n sends user message 10n and system message
\* 10n + 1, and its run produces 10n + 2, 10n + 3, ...
UserMsg(n) == Msg(10 * n, "user")
SystemMsg(n) == Msg(10 * n + 1, "system")
NewMessages(n, count) == [i \in 1..count |-> Msg(10 * n + 1 + i, "assistant")]

IsUser(m) == m.role = "user"

\* How many messages a completed run produces (result.new_messages()): the
\* answer, or a tool call and the answer.
NewCounts == {1, 2}

\* What a client puts in the request of turn n, given the history the
\* thread holds: only the new user message; the whole history and the new
\* message; only its own earlier prompts and the new one; a system prompt
\* and the new message; no message at all.
PayloadShapes == {"new_only", "full_history", "user_resend", "system_led", "empty"}

Incoming(shape, stored, n) ==
    CASE shape = "new_only" -> <<UserMsg(n)>>
      [] shape = "full_history" -> stored \o <<UserMsg(n)>>
      [] shape = "user_resend" -> SelectSeq(stored, IsUser) \o <<UserMsg(n)>>
      [] shape = "system_led" -> <<SystemMsg(n), UserMsg(n)>>
      [] shape = "empty" -> <<>>

\* core.messages.merge_messages(history_base, incoming, new)
merge_messages(a, b, c) == a \o b \o c

\* incoming_has_history as it would read if it looked for assistant
\* messages only.
incoming_has_history_assistant_only(incoming) ==
    LET roles == {incoming[i].role : i \in 1..Len(incoming)}
    IN  roles \cap {"assistant"} # {}

\* server/services/sessions.py incoming_has_history(run_input)
incoming_has_history(incoming) ==
    LET roles == {incoming[i].role : i \in 1..Len(incoming)}
    IN  roles \cap {"assistant", "system"} # {}

\* select_message_history as it would read if it always fed the stored
\* history.
select_message_history_stored(incoming, stored_messages) == stored_messages

\* select_message_history as it would read if it never fed the stored
\* history.
select_message_history_empty(incoming, stored_messages) == <<>>

\* server/services/sessions.py select_message_history(run_input, stored)
select_message_history(incoming, stored_messages) ==
    IF incoming_has_history(incoming) THEN <<>> ELSE stored_messages

\* SessionStore.load_thread(session_id, thread_id).messages
load_thread(ms, k) == ms[k]

\* SessionStore.save_thread(session_id, thread_id, messages=...)
save_thread(ms, k, messages) == [ms EXCEPT ![k] = messages]

\* core.threads.list_threads(store, session_id), as a set
list_threads(th, session_id) == {k[2] : k \in {x \in th : x[1] = session_id}}

\* --------------------------------------------------------- chat turns
\* A turn is the request scope of one POST /ag-ui or /ui/chat: what the
\* handler resolved and loaded, and where the run is.
\*   pc: "streaming" (handler returned, agent running), "done" (on_complete
\*   ran), "aborted" (cancelled or failed before completing).
\*   loaded: thread_state.messages; history: message_history, the base of
\*   the merge; new: result.new_messages().
Turn(k, agent_id, model_name, incoming, stored, message_history) ==
    [key |-> k, agent |-> agent_id, model |-> model_name, incoming |-> incoming,
     loaded |-> stored, history |-> message_history, new |-> <<>>,
     pc |-> "streaming"]

\* `model_name = ctx.store.get_session_model(session_id) or
\* resolve_default_model(plugin)` for the plugin of the thread.
chat_model_name(reg, st, sm, e, k) ==
    Or(get_session_model(sm, k[1]),
       resolve_default_model(e, resolve_agent_plugin(reg, st, k)[2]))

\* The handler as it would read if the server held one lock from the load
\* of the history to on_complete: a request waits while any turn streams.
ChatStart_exclusive(k, shape, create_ok) ==
    LET n == Len(turns) + 1
        r == resolve_agent_plugin(registry, settings, k)
        model_name == chat_model_name(registry, settings, sessionModel, env, k)
        stored == load_thread(msgs, k)
        incoming == Incoming(shape, stored, n)
        message_history == select_message_history(incoming, stored)
    IN  /\ Len(turns) < MaxTurns
        /\ \A t \in 1..Len(turns) : turns[t].pc # "streaming"
        /\ IF create_ok
           THEN /\ turns' = Append(turns, Turn(k, r[1], model_name, incoming,
                                               stored, message_history))
                /\ resp' = [op |-> "chat", key |-> k, status |-> 200, turn |-> n]
           ELSE /\ turns' = turns
                /\ resp' = [op |-> "chat", key |-> k, status |-> 400, turn |-> 0]
        /\ UNCHANGED <<fs, tui, registry, env, settings, sessionModel, threads, msgs>>

\* The handler up to `return adapter.streaming_response(stream)`: it has no
\* await after the body is read, so it is one step.  create_ok is whether
\* plugin.create_agent(model_name) accepts the model (UserError otherwise).
ChatStart(k, shape, create_ok) ==
    LET n == Len(turns) + 1
        r == resolve_agent_plugin(registry, settings, k)
        model_name == chat_model_name(registry, settings, sessionModel, env, k)
        stored == load_thread(msgs, k)
        incoming == Incoming(shape, stored, n)
        message_history == select_message_history(incoming, stored)
    IN  /\ Len(turns) < MaxTurns
        /\ IF create_ok
           THEN /\ turns' = Append(turns, Turn(k, r[1], model_name, incoming,
                                               stored, message_history))
                /\ resp' = [op |-> "chat", key |-> k, status |-> 200, turn |-> n]
           ELSE /\ turns' = turns
                /\ resp' = [op |-> "chat", key |-> k, status |-> 400, turn |-> 0]
        /\ UNCHANGED <<fs, tui, registry, env, settings, sessionModel, threads, msgs>>

\* AGUIAdapter.messages: the request's messages loaded as the agent's own
\* message objects, a request object for what the client or the system
\* said and a response object for what the model said.  They carry a kind
\* and no role.
load_messages(incoming) ==
    [i \in 1..Len(incoming) |->
        [id |-> incoming[i].id,
         kind |-> IF incoming[i].role = "assistant" THEN "response"
                  ELSE "request"]]

\* `msg.role` can be read from every message of the list (AttributeError
\* otherwise).
RolesReadable(messages) ==
    \A i \in 1..Len(messages) : "role" \in DOMAIN messages[i]

\* POST /ag-ui up to `return adapter.streaming_response(stream)`.  The
\* handler hands the adapter, not the request, to select_message_history,
\* which reads `.messages` of what it is given and `.role` of each.
ag_ui(k, shape, create_ok) ==
    LET n == Len(turns) + 1
        r == resolve_agent_plugin(registry, settings, k)
        model_name == chat_model_name(registry, settings, sessionModel, env, k)
        stored == load_thread(msgs, k)
        incoming == Incoming(shape, stored, n)
        adapter_messages == load_messages(incoming)
    IN  /\ Len(turns) < MaxTurns
        /\ IF ~create_ok
           THEN /\ turns' = turns
                /\ resp' = [op |-> "ag_ui", key |-> k, status |-> 400, turn |-> 0,
                            incoming |-> incoming, loaded |-> stored]
           ELSE IF ~RolesReadable(adapter_messages)
           THEN /\ turns' = turns
                /\ resp' = [op |-> "ag_ui", key |-> k, status |-> 500, turn |-> 0,
                            incoming |-> incoming, loaded |-> stored]
           ELSE /\ turns' = Append(turns,
                                   Turn(k, r[1], model_name, incoming, stored,
                                        select_message_history(adapter_messages,
                                                               stored)))
                /\ resp' = [op |-> "ag_ui", key |-> k, status |-> 200, turn |-> n,
                            incoming |-> incoming, loaded |-> stored]
        /\ UNCHANGED <<fs, tui, registry, env, settings, sessionModel, threads, msgs>>

\* on_complete as it would read with the history base and the incoming
\* messages passed in the other order.
on_complete_merged_swapped(turn, new) ==
    merge_messages(turn.incoming, turn.history, new)

\* on_complete as it would read if it persisted before the run's new
\* messages were merged in.
on_complete_merged_partial(turn, new) ==
    merge_messages(turn.history, turn.incoming, <<>>)

\* on_complete as it would read if it persisted the base and the run's new
\* messages without the request's incoming messages.
on_complete_merged_result_only(turn, new) ==
    merge_messages(turn.history, <<>>, new)

\* on_complete(result): merged = merge_messages(history_base,
\* incoming_messages, result.new_messages())
on_complete_merged(turn, new) ==
    merge_messages(turn.history, turn.incoming, new)

\* The run of turn t completes as it would if save_thread wrote the
\* messages of a thread without making the thread one of its session.
ChatComplete_unlisted(t, count) ==
    LET turn == turns[t]
        new == NewMessages(t, count)
    IN  /\ turn.pc = "streaming"
        /\ msgs' = save_thread(msgs, turn.key, on_complete_merged(turn, new))
        /\ turns' = [turns EXCEPT ![t].pc = "done", ![t].new = new]
        /\ resp' = [op |-> "chat_complete", key |-> turn.key, status |-> 200,
                    turn |-> t]
        /\ UNCHANGED <<fs, tui, registry, env, settings, sessionModel, threads>>

\* The run of turn t completes as it would if on_complete looked up the
\* thread's plugin and the session's model again instead of using the ones
\* its closure holds.
ChatComplete_reresolving(t, count) ==
    LET turn == turns[t]
        new == NewMessages(t, count)
    IN  /\ turn.pc = "streaming"
        /\ msgs' = save_thread(msgs, turn.key, on_complete_merged(turn, new))
        /\ threads' = threads \cup {turn.key}
        /\ turns' = [turns EXCEPT ![t].pc = "done", ![t].new = new]
        /\ resp' = [op |-> "chat_complete", key |-> turn.key, status |-> 200,
                    turn |-> t,
                    agent |-> resolve_agent_plugin(registry, settings, turn.key)[1],
                    model |-> chat_model_name(registry, settings, sessionModel,
                                              env, turn.key)]
        /\ UNCHANGED <<fs, tui, registry, env, settings, sessionModel>>

\* The run of turn t completes and on_complete(result) saves the thread,
\* then calls plugin.on_complete(run_ctx, result) with the plugin and the
\* run context (its model) of the closure: agent and model of the answer.
ChatComplete(t, count) ==
    LET turn == turns[t]
        new == NewMessages(t, count)
    IN  /\ turn.pc = "streaming"
        /\ msgs' = save_thread(msgs, turn.key, on_complete_merged(turn, new))
        /\ threads' = threads \cup {turn.key}
        /\ turns' = [turns EXCEPT ![t].pc = "done", ![t].new = new]
        /\ resp' = [op |-> "chat_complete", key |-> turn.key, status |-> 200,
                    turn |-> t, agent |-> turn.agent, model |-> turn.model]
        /\ UNCHANGED <<fs, tui, registry, env, settings, sessionModel>>

\* The run ends without completing as it would if on_complete were called
\* from a finally block: what was merged so far is saved.
ChatAbort_saving(t, how) ==
    /\ turns[t].pc = "streaming"
    /\ turns' = [turns EXCEPT ![t].pc = "aborted"]
    /\ msgs' = save_thread(msgs, turns[t].key,
                           on_complete_merged(turns[t], <<>>))
    /\ resp' = [op |-> "chat_abort", key |-> turns[t].key, status |-> 0,
                turn |-> t, how |-> how]
    /\ UNCHANGED <<fs, tui, registry, env, settings, sessionModel, threads>>

\* The run of turn t is cancelled (the client goes away) or fails before it
\* completes: run_stream never calls on_complete.
ChatAbort(t, how) ==
    /\ turns[t].pc = "streaming"
    /\ turns' = [turns EXCEPT ![t].pc = "aborted"]
    /\ resp' = [op |-> "chat_abort", key |-> turns[t].key, status |-> 0,
                turn |-> t, how |-> how]
    /\ UNCHANGED <<fs, tui, registry, env, settings, sessionModel, threads, msgs>>

\* ---------------------------------------------------- thread lifecycle
\* POST /sessions/{session_id}/threads as it would read if create_thread
\* wrote the empty thread without looking for an existing one.
api_create_thread_overwriting(k) ==
    /\ threads' = threads \cup {k}
    /\ settings' = set_thread_settings(settings, k, None)
    /\ msgs' = save_thread(msgs, k, <<>>)
    /\ resp' = [op |-> "create_thread", key |-> k, status |-> 200]
    /\ UNCHANGED <<fs, tui, registry, env, sessionModel, turns>>

\* POST /sessions/{session_id}/threads
api_create_thread(k) ==
    IF k \in threads
    THEN /\ resp' = [op |-> "create_thread", key |-> k, status |-> 409]
         /\ UNCHANGED <<fs, tui, registry, env, settings, sessionModel, threads, msgs, turns>>
    ELSE /\ threads' = threads \cup {k}
         /\ settings' = set_thread_settings(settings, k, None)
         /\ msgs' = save_thread(msgs, k, <<>>)
         /\ resp' = [op |-> "create_thread", key |-> k, status |-> 200]
         /\ UNCHANGED <<fs, tui, registry, env, sessionModel, turns>>

\* DELETE .../threads/{thread_id} as it would read without the
\* `thread_id not in list_threads(...)` check, deleting whatever is there.
api_delete_thread_unchecked(k) ==
    /\ threads' = threads \ {k}
    /\ settings' = set_thread_settings(settings, k, None)
    /\ msgs' = save_thread(msgs, k, <<>>)
    /\ resp' = [op |-> "delete_thread", key |-> k, status |-> 200]
    /\ UNCHANGED <<fs, tui, registry, env, sessionModel, turns>>

\* DELETE /sessions/{session_id}/threads/{thread_id}
api_delete_thread(k) ==
    IF k[2] \notin list_threads(threads, k[1])
    THEN /\ resp' = [op |-> "delete_thread", key |-> k, status |-> 404]
         /\ UNCHANGED <<fs, tui, registry, env, settings, sessionModel, threads, msgs, turns>>
    ELSE /\ threads' = threads \ {k}
         /\ settings' = set_thread_settings(settings, k, None)
         /\ msgs' = save_thread(msgs, k, <<>>)
         /\ resp' = [op |-> "delete_thread", key |-> k, status |-> 200]
         /\ UNCHANGED <<fs, tui, registry, env, sessionModel, turns>>

\* POST .../clear as it would read if it emptied every thread of the
\* session.
api_clear_thread_session(k) ==
    IF k[2] \notin list_threads(threads, k[1])
    THEN /\ resp' = [op |-> "clear_thread", key |-> k, status |-> 404]
         /\ UNCHANGED <<fs, tui, registry, env, settings, sessionModel, threads, msgs, turns>>
    ELSE /\ msgs' = [o \in Keys |-> IF o[1] = k[1] THEN <<>> ELSE msgs[o]]
         /\ resp' = [op |-> "clear_thread", key |-> k, status |-> 200]
         /\ UNCHANGED <<fs, tui, registry, env, settings, sessionModel, threads, turns>>

\* POST .../clear as it would read if it cleared by writing a fresh thread,
\* settings included.
api_clear_thread_resetting(k) ==
    IF k[2] \notin list_threads(threads, k[1])
    THEN /\ resp' = [op |-> "clear_thread", key |-> k, status |-> 404]
         /\ UNCHANGED <<fs, tui, registry, env, settings, sessionModel, threads, msgs, turns>>
    ELSE /\ msgs' = save_thread(msgs, k, <<>>)
         /\ settings' = set_thread_settings(settings, k, None)
         /\ resp' = [op |-> "clear_thread", key |-> k, status |-> 200]
         /\ UNCHANGED <<fs, tui, registry, env, sessionModel, threads, turns>>

\* POST .../clear as it would read without the
\* `thread_id not in list_threads(...)` check.
api_clear_thread_unchecked(k) ==
    /\ msgs' = save_thread(msgs, k, <<>>)
    /\ threads' = threads \cup {k}
    /\ resp' = [op |-> "clear_thread", key |-> k, status |-> 200]
    /\ UNCHANGED <<fs, tui, registry, env, settings, sessionModel, turns>>

\* POST /sessions/{session_id}/threads/{thread_id}/clear
api_clear_thread(k) ==
    IF k[2] \notin list_threads(threads, k[1])
    THEN /\ resp' = [op |-> "clear_thread", key |-> k, status |-> 404]
         /\ UNCHANGED <<fs, tui, registry, env, settings, sessionModel, threads, msgs, turns>>
    ELSE /\ msgs' = save_thread(msgs, k, <<>>)
         /\ resp' = [op |-> "clear_thread", key |-> k, status |-> 200]
         /\ UNCHANGED <<fs, tui, registry, env, settings, sessionModel, threads, turns>>

\* GET /sessions/{session_id}/threads/{thread_id}/messages
api_thread_messages(k) ==
    /\ resp' = [op |-> "thread_messages", key |-> k, status |-> 200,
                messages |-> load_thread(msgs, k)]
    /\ UNCHANGED <<fs, tui, registry, env, settings, sessionModel, threads, msgs, turns>>

\* GET /sessions/{session_id}/threads
api_list_threads(session_id) ==
    /\ resp' = [op |-> "list_threads", session |-> session_id, status |-> 200,
                threads |-> list_threads(threads, session_id)]
    /\ UNCHANGED <<fs, tui, registry, env, settings, sessionModel, threads, msgs, turns>>

\* POST /sessions/{session_id}/threads with its payload: an empty or missing
\* payload.thread_id ("") has generate_thread_id() pick an id, which is one
\* the session does not hold.
api_create_thread_payload(session_id, thread_id) ==
    IF thread_id = ""
    THEN \E k \in Keys \ threads : k[1] = session_id /\ api_create_thread(k)
    ELSE api_create_thread(<<session_id, thread_id>>)

\* -------------------------------------------------------------- storage
\* A path is the sequence of its components; "~" as the first component is
\* the home directory not yet expanded.  The filesystem fs maps the paths it
\* holds to a directory or to a file with its text.
Home == <<"home">>

Cwd == <<"proj">>

Dir == [kind |-> "dir", text |-> <<>>]

File(text) == [kind |-> "file", text |-> text]

\* Path.exists() and what is there.
Kind(f, p) ==
    IF p = <<>> THEN "dir" ELSE IF p \in DOMAIN f THEN f[p].kind ELSE "absent"

\* config.py _coerce_path(value): Path(value).expanduser()
coerce_path(value) ==
    IF value # <<>> /\ value[1] = "~" THEN Home \o Tail(value) ELSE value

s_local == <<"l", "o", "c", "a", "l">>
s_cwd == <<"c", "w", "d">>
s_project == <<"p", "r", "o", "j", "e", "c", "t">>
s_central == <<"c", "e", "n", "t", "r", "a", "l">>
s_Local_padded == <<" ", "L", "o", "c", "a", "l", " ">>

\* config.py _resolve_workspace_mode(explicit)
resolve_workspace_mode(e, explicit) ==
    LET value == Lower(Strip(Or(explicit, Or(e.LATTICE_WORKSPACE_MODE, s_local))))
    IN  IF value \in {s_local, s_project, s_cwd} THEN s_local ELSE s_central

\* config.py _resolve_path_override(explicit, env_var); env_value is
\* os.getenv(env_var), a path text without surrounding whitespace.
resolve_path_override(explicit, env_value) ==
    IF explicit # None THEN coerce_path(explicit)
    ELSE IF Truthy(env_value) THEN coerce_path(env_value)
    ELSE None

\* config.py resolve_storage_config(project_root=, workspace_mode=,
\* data_dir=, workspace_dir=)
resolve_storage_config(e, project_root, workspace_mode, data_dir, workspace_dir) ==
    LET resolved_project_root ==
            IF project_root # None THEN coerce_path(project_root)
            ELSE IF Truthy(e.LATTICE_PROJECT_ROOT)
                 THEN coerce_path(e.LATTICE_PROJECT_ROOT)
            ELSE Cwd
        resolved_mode == resolve_workspace_mode(e, workspace_mode)
        data_override == resolve_path_override(data_dir, e.LATTICE_DATA_DIR)
        data == IF data_override # None THEN data_override
                ELSE IF resolved_mode = s_local
                     THEN Append(resolved_project_root, ".lattice")
                ELSE Append(Home, ".lattice")
        workspace_override ==
            resolve_path_override(workspace_dir, e.LATTICE_WORKSPACE_DIR)
        workspace == IF workspace_override # None THEN workspace_override
                     ELSE Append(data, "workspace")
    IN  [data_dir |-> data,
         db_path |-> IF Truthy(e.LATTICE_DB_PATH) THEN coerce_path(e.LATTICE_DB_PATH)
                     ELSE Append(data, "lattice.db"),
         session_id_path |-> IF Truthy(e.LATTICE_SESSION_FILE)
                             THEN coerce_path(e.LATTICE_SESSION_FILE)
                             ELSE Append(data, "session_id"),
         workspace_dir |-> workspace,
         project_root |-> resolved_project_root,
         workspace_mode |-> resolved_mode]

\* Path.mkdir(parents=True, exist_ok=True): the path and its missing
\* ancestors become directories; it raises when the path or an ancestor is
\* a file.
mkdir_parents(f, p) ==
    LET made == {SubSeq(p, 1, i) : i \in 1..Len(p)}
    IN  IF \E q \in made : Kind(f, q) = "file" THEN Raised
        ELSE [q \in DOMAIN f \cup made |-> IF q \in made THEN Dir ELSE f[q]]

\* config.py ensure_storage_dirs(config): the filesystem it leaves and
\* whether a mkdir raised.
ensure_storage_dirs(f, config) ==
    LET f1 == mkdir_parents(f, config.data_dir)
        f2 == mkdir_parents(f1, config.workspace_dir)
    IN  IF f1 = Raised THEN [fs |-> f, raised |-> TRUE]
        ELSE IF f2 = Raised THEN [fs |-> f1, raised |-> TRUE]
        ELSE [fs |-> f2, raised |-> FALSE]

\* The keyword arguments of a configuration call.
ConfigArgs(project_root, workspace_mode, data_dir, workspace_dir) ==
    [project_root |-> project_root, workspace_mode |-> workspace_mode,
     data_dir |-> data_dir, workspace_dir |-> workspace_dir]

\* A call of resolve_storage_config as it would go if the function made
\* the directories it names, as load_storage_config does.
call_resolve_storage_config_ensuring(args) ==
    LET config == resolve_storage_config(env, args.project_root,
                      args.workspace_mode, args.data_dir, args.workspace_dir)
        ensured == ensure_storage_dirs(fs, config)
    IN  /\ fs' = ensured.fs
        /\ resp' = [op |-> "resolve_storage_config", args |-> args,
                    status |-> IF ensured.raised THEN "raised" ELSE "ok",
                    config |-> config]
        /\ UNCHANGED <<tui, registry, env, settings, sessionModel, threads, msgs, turns>>

\* A call of resolve_storage_config.
call_resolve_storage_config(args) ==
    /\ resp' = [op |-> "resolve_storage_config", args |-> args, status |-> "ok",
                config |-> resolve_storage_config(env, args.project_root,
                               args.workspace_mode, args.data_dir,
                               args.workspace_dir)]
    /\ UNCHANGED <<fs, tui, registry, env, settings, sessionModel, threads, msgs, turns>>

\* A call of load_storage_config.
call_load_storage_config(args) ==
    LET config == resolve_storage_config(env, args.project_root,
                      args.workspace_mode, args.data_dir, args.workspace_dir)
        ensured == ensure_storage_dirs(fs, config)
    IN  /\ fs' = ensured.fs
        /\ resp' = [op |-> "load_storage_config", args |-> args,
                    status |-> IF ensured.raised THEN "raised" ELSE "ok",
                    config |-> config]
        /\ UNCHANGED <<tui, registry, env, settings, sessionModel, threads, msgs, turns>>

s_tui1 == <<"t", "u", "i", "-", "1">>
s_tui2 == <<"t", "u", "i", "-", "2">>
s_s9_line == <<"s", "9", "\n">>
s_fixed == <<"f", "i", "x", "e", "d">>

\* f"tui-{uuid.uuid4()}": an id that is new each time it is drawn.
FreshIds == {s_tui1, s_tui2}

\* load_or_create_session_id as it would read if it wrote a new id to the
\* file on every call.
load_or_create_session_id_rewriting(f, e, path, fresh) ==
    LET override == e.LATTICE_SESSION_ID
        parent == SubSeq(path, 1, Len(path) - 1)
        made == mkdir_parents(f, parent)
    IN  IF Truthy(override) THEN [id |-> override, fs |-> f, raised |-> FALSE]
        ELSE IF made = Raised \/ Kind(f, path) = "dir"
             THEN [id |-> None, fs |-> f, raised |-> TRUE]
        ELSE [id |-> fresh,
              fs |-> [q \in DOMAIN made \cup {path} |->
                         IF q = path THEN File(fresh) ELSE made[q]],
              raised |-> FALSE]

\* config.py load_or_create_session_id(path, env_var="LATTICE_SESSION_ID"):
\* the id it returns, the filesystem it leaves, and whether it raised
\* (read_text of a directory, mkdir under a file).
load_or_create_session_id(f, e, path, fresh) ==
    LET override == e.LATTICE_SESSION_ID
        parent == SubSeq(path, 1, Len(path) - 1)
        made == mkdir_parents(f, parent)
    IN  IF Truthy(override) THEN [id |-> override, fs |-> f, raised |-> FALSE]
        ELSE IF Kind(f, path) = "file"
             THEN [id |-> Strip(f[path].text), fs |-> f, raised |-> FALSE]
        ELSE IF Kind(f, path) = "dir"
             THEN [id |-> None, fs |-> f, raised |-> TRUE]
        ELSE IF made = Raised THEN [id |-> None, fs |-> f, raised |-> TRUE]
        ELSE [id |-> fresh,
              fs |-> [q \in DOMAIN made \cup {path} |->
                         IF q = path THEN File(fresh) ELSE made[q]],
              raised |-> FALSE]

\* A call of load_or_create_session_id(path).
call_load_or_create_session_id(path) ==
    \E fresh \in FreshIds :
        LET r == load_or_create_session_id(fs, env, path, fresh)
        IN  /\ fs' = r.fs
            /\ resp' = [op |-> "load_or_create_session_id", path |-> path,
                        status |-> IF r.raised THEN "raised" ELSE "ok",
                        id |-> r.id]
            /\ UNCHANGED <<tui, registry, env, settings, sessionModel, threads, msgs, turns>>

\* ------------------------------------------------------ specifications
NoResponse == [op |-> "none", status |-> 0]

\* No file or directory of the server's storage is looked at.
NoFiles == <<>>

\* No terminal client is attached.
NoTui == [mounted |-> FALSE]

\* Neither AGENT_MODEL nor LATTICE_MODEL is set.
NoEnv == [AGENT_MODEL |-> None, LATTICE_MODEL |-> None]

\* A store that already holds a thread with a persisted agent value.
InitAgents ==
    /\ registry \in Registries
    /\ \E v \in StoredAtStartup :
         settings = [k \in Keys |-> IF k = <<"s1", "t1">> THEN v ELSE None]
    /\ env = NoEnv
    /\ sessionModel = [s \in Sessions |-> None]
    /\ threads = {<<"s1", "t1">>}
    /\ msgs = [k \in Keys |-> <<>>]
    /\ turns = <<>>
    /\ resp = NoResponse
    /\ fs = NoFiles
    /\ tui = NoTui

NextAgents ==
    \/ \E k \in Keys : api_get_thread_agent(k)
    \/ \E k \in Keys, agent \in Requested : api_set_thread_agent(k, agent)
    \/ \E reg \in Registries : RestartServer(reg)

SpecAgents == InitAgents /\ [][NextAgents]_vars

\* The model routes and the model services, on a store that may hold a
\* session model set earlier and under an environment that may set
\* AGENT_MODEL and LATTICE_MODEL: unset, set, padded, empty or blank.
Env(agent_model, lattice_model) ==
    [AGENT_MODEL |-> agent_model, LATTICE_MODEL |-> lattice_model]

Envs ==
    {NoEnv, Env(s_m1, s_m2), Env(None, s_m2), Env(s_blank, s_m2),
     Env(s_m2_padded, None), Env(s_empty, s_m1), Env(s_blank, s_blank)}

ModelRegistries == {RegistryAB, RegistryABBe, RegistryABe}

\* A session model a store may hold at startup: none, a listed model, a
\* model set under a plugin that validates nothing.
StoredModelsAtStartup == {None, s_m1, s_zz}

InitModels ==
    /\ registry \in ModelRegistries
    /\ env \in Envs
    /\ settings = [k \in Keys |-> IF k = <<"s1", "t1">> THEN s_be ELSE None]
    /\ \E v \in StoredModelsAtStartup :
         sessionModel = [s \in Sessions |-> IF s = "s1" THEN v ELSE None]
    /\ threads = {<<"s1", "t1">>}
    /\ msgs = [k \in Keys |-> <<>>]
    /\ turns = <<>>
    /\ resp = NoResponse
    /\ fs = NoFiles
    /\ tui = NoTui

NextModels ==
    \/ api_list_models
    \/ \E s \in Sessions : api_get_session_model(s)
    \/ \E s \in Sessions, requested \in RequestedModels :
          api_set_session_model(s, requested)
    \/ \E s \in Sessions, id \in DOMAIN registry.agents :
          services_select_session_model(s, id)
    \/ \E s \in Sessions, id \in DOMAIN registry.agents,
          requested \in RequestedModels :
             services_set_session_model(s, id, requested)

SpecModels == InitModels /\ [][NextModels]_vars

\* The registry alone: every registration order of every plugin set, and
\* resolve_id called on it with the queries its callers pass (non-blank,
\* stripped).
Orders(S) ==
    {o \in [1..Cardinality(S) -> S] :
        \A i, j \in 1..Cardinality(S) : o[i] = o[j] => i = j}

Reordered(reg) == {[reg EXCEPT !.order = o] : o \in Orders(DOMAIN reg.agents)}

Queries == {s_alpha, s_beta, s_be, s_Beta, s_BE, s_a, s_zz, s_gent, s_Alpha}

registry_resolve_id(query, allow_fuzzy) ==
    /\ resp' = [op |-> "resolve_id", status |-> 200, query |-> query,
                allow_fuzzy |-> allow_fuzzy,
                result |-> resolve_id(registry, query, allow_fuzzy)]
    /\ UNCHANGED <<fs, tui, registry, env, settings, sessionModel, threads, msgs, turns>>

InitResolve ==
    /\ registry \in UNION {Reordered(reg) : reg \in Registries}
    /\ env = NoEnv
    /\ settings = [k \in Keys |-> None]
    /\ sessionModel = [s \in Sessions |-> None]
    /\ threads = {}
    /\ msgs = [k \in Keys |-> <<>>]
    /\ turns = <<>>
    /\ resp = NoResponse
    /\ fs = NoFiles
    /\ tui = NoTui

NextResolve ==
    \E query \in Queries, allow_fuzzy \in BOOLEAN :
       registry_resolve_id(query, allow_fuzzy)

SpecResolve == InitResolve /\ [][NextResolve]_vars

\* The chat routes and the thread lifecycle on one registry; threads start
\* empty.
ChatKeys == {<<"s1", "t1">>, <<"s1", "t2">>}

Init ==
    /\ registry = RegistryAB
    /\ env = NoEnv
    /\ settings = [k \in Keys |-> None]
    /\ sessionModel = [s \in Sessions |-> None]
    /\ threads = {}
    /\ msgs = [k \in Keys |-> <<>>]
    /\ turns = <<>>
    /\ resp = NoResponse
    /\ fs = NoFiles
    /\ tui = NoTui

Next ==
    \/ \E k \in ChatKeys, shape \in PayloadShapes, create_ok \in BOOLEAN :
          ChatStart(k, shape, create_ok)
    \/ \E t \in 1..Len(turns), count \in NewCounts : ChatComplete(t, count)
    \/ \E t \in 1..Len(turns), how \in {"cancelled", "failed"} : ChatAbort(t, how)
    \/ \E k \in ChatKeys : api_delete_thread(k)
    \/ \E k \in ChatKeys : api_clear_thread(k)

Spec == Init /\ [][Next]_vars

\* The storage configuration and the session id file, on a filesystem that
\* is bare, that holds a data directory with a session file written
\* earlier, or that holds a file where the data directory would go; under an
\* environment that may set the session id and the data directory.
ConfigEnv(session_id, data_dir) ==
    [AGENT_MODEL |-> None, LATTICE_MODEL |-> None,
     LATTICE_PROJECT_ROOT |-> None, LATTICE_WORKSPACE_MODE |-> None,
     LATTICE_DATA_DIR |-> data_dir, LATTICE_WORKSPACE_DIR |-> None,
     LATTICE_DB_PATH |-> None, LATTICE_SESSION_FILE |-> None,
     LATTICE_SESSION_ID |-> session_id]

ConfigEnvs ==
    {ConfigEnv(None, None), ConfigEnv(s_empty, None), ConfigEnv(s_fixed, None),
     ConfigEnv(None, <<"tmp", "envdata">>)}

FsBare == (Home :> Dir) @@ (Cwd :> Dir) @@ (<<"tmp">> :> Dir)

FsStored ==
    FsBare @@ (<<"tmp", "data">> :> Dir)
           @@ (<<"tmp", "data", "session_id">> :> File(s_s9_line))

FsBlocked == FsBare @@ (<<"tmp", "data">> :> File(<<>>))

Filesystems == {FsBare, FsStored, FsBlocked}

\* The calls made: no argument; the directories of a test run; directories
\* under "~"; the central mode; a padded, capitalised local mode under a
\* project root; a data directory alone.
ConfigCalls ==
    {ConfigArgs(None, None, None, None),
     ConfigArgs(<<"tmp">>, None, <<"tmp", "data">>, <<"tmp", "workspace">>),
     ConfigArgs(None, None, <<"~", "data">>, <<"~", "workspace">>),
     ConfigArgs(None, s_central, None, None),
     ConfigArgs(<<"tmp">>, s_Local_padded, None, None),
     ConfigArgs(None, None, <<"tmp", "data">>, None)}

SessionPaths == {<<"tmp", "data", "session_id">>, <<"tmp", "nested", "session_id">>}

InitConfig ==
    /\ registry = RegistryAB
    /\ env \in ConfigEnvs
    /\ settings = [k \in Keys |-> None]
    /\ sessionModel = [s \in Sessions |-> None]
    /\ threads = {}
    /\ msgs = [k \in Keys |-> <<>>]
    /\ turns = <<>>
    /\ resp = NoResponse
    /\ fs \in Filesystems
    /\ tui = NoTui

NextConfig ==
    \/ \E args \in ConfigCalls : call_resolve_storage_config(args)
    \/ \E args \in ConfigCalls : call_load_storage_config(args)
    \/ \E path \in SessionPaths : call_load_or_create_session_id(path)

SpecConfig == InitConfig /\ [][NextConfig]_vars

\* The thread lifecycle routes on an empty store, next to the agent setter
\* and chat turns of a stateless client.
ThreadIdPayloads == {"", "t1", "t2"}

ThreadAgents == {None, s_be}

NextThreads ==
    \/ \E s \in Sessions, thread_id \in ThreadIdPayloads :
          /\ thread_id # "" => <<s, thread_id>> \in Keys
          /\ api_create_thread_payload(s, thread_id)
    \/ \E s \in Sessions : api_list_threads(s)
    \/ \E k \in Keys : api_delete_thread(k)
    \/ \E k \in Keys : api_clear_thread(k)
    \/ \E k \in ChatKeys : api_thread_messages(k)
    \/ \E k \in ChatKeys, agent \in ThreadAgents : api_set_thread_agent(k, agent)
    \/ \E k \in ChatKeys :
          Len(turns) < MaxLifecycleTurns /\ ChatStart(k, "new_only", TRUE)
    \/ \E t \in 1..Len(turns) : ChatComplete(t, 1)

SpecThreads == Init /\ [][NextThreads]_vars

\* The agent routes and chat turns while the registry is replaced under
\* them, on a store that holds a thread with a persisted agent.
InitSwap ==
    /\ registry = RegistryAB
    /\ env = NoEnv
    /\ settings = [k \in Keys |-> IF k = <<"s1", "t1">> THEN s_beta ELSE None]
    /\ sessionModel = [s \in Sessions |-> None]
    /\ threads = {<<"s1", "t1">>}
    /\ msgs = [k \in Keys |-> <<>>]
    /\ turns = <<>>
    /\ resp = NoResponse
    /\ fs = NoFiles
    /\ tui = NoTui

NextSwap ==
    \/ \E reg \in Registries : replace_registry(reg)
    \/ \E k \in ChatKeys : api_get_thread_agent(k)
    \/ \E k \in ChatKeys, agent \in ThreadAgents : api_set_thread_agent(k, agent)
    \/ \E k \in ChatKeys :
          Len(turns) < MaxLifecycleTurns /\ ChatStart(k, "new_only", TRUE)
    \/ \E t \in 1..Len(turns) : ChatComplete(t, 1)

SpecSwap == InitSwap /\ [][NextSwap]_vars

\* ------------------------------------------------------------------ TUI
\* tui/app.py AgentApp, one terminal client of the server.  A command is
\* one step: the client awaits each of its requests in turn and the model
\* has no second client.  The store the requests act on is the record of
\* threads, settings and msgs.
TuiSession == "s1"

TuiThreads == {"default", "t1", "t2"}

TuiKeys == {<<TuiSession, t>> : t \in TuiThreads}

\* `limit = 30` of /agent list
Limit == 30

Store == [threads |-> threads, settings |-> settings, msgs |-> msgs]

\* AgentClient.list_threads: GET /sessions/{session_id}/threads
client_list_threads(store, session_id) == list_threads(store.threads, session_id)

\* AgentClient.create_thread: POST /sessions/{session_id}/threads; a 409
\* leaves the store as it is.
client_create_thread(store, k) ==
    IF k \in store.threads THEN store
    ELSE [threads |-> store.threads \cup {k},
          settings |-> set_thread_settings(store.settings, k, None),
          msgs |-> save_thread(store.msgs, k, <<>>)]

\* AgentClient.delete_thread: DELETE /sessions/{session_id}/threads/{id}; a
\* 404 leaves the store as it is.
client_delete_thread(store, k) ==
    IF k[2] \notin list_threads(store.threads, k[1]) THEN store
    ELSE [threads |-> store.threads \ {k},
          settings |-> set_thread_settings(store.settings, k, None),
          msgs |-> save_thread(store.msgs, k, <<>>)]

\* AgentClient.get_thread_agent: GET .../threads/{id}/agent, payload.agent
client_get_thread_agent(store, k) ==
    resolve_agent_plugin(registry, store.settings, k)[1]

\* AgentClient.set_thread_agent: PUT .../threads/{id}/agent; ok is FALSE for
\* the 400 of an unknown or ambiguous agent, which the client raises.
client_set_thread_agent(store, k, agent) ==
    LET requested == StripRequested(agent)
        resolved == resolve_id(registry, requested, TRUE)
    IN  IF Truthy(requested) /\ resolved = None
        THEN [ok |-> FALSE, store |-> store, agent |-> None]
        ELSE [ok |-> TRUE,
              store |-> [threads |-> store.threads \cup {k},
                         settings |-> SetThreadAgentStore(registry, store.settings,
                                                          k, agent),
                         msgs |-> store.msgs],
              agent |-> IF Truthy(requested) THEN resolved
                        ELSE registry.default_agent]

\* AgentClient.list_agents: GET /agents, as (id, name) pairs in the order of
\* the registry.
client_list_agents ==
    [i \in 1..Len(registry.order) |->
        <<registry.order[i], registry.agents[registry.order[i]].name>>]

\* AgentApp.__init__
TuiBefore ==
    [mounted |-> FALSE, session_id |-> "...", thread_id |-> "...",
     agent_id |-> None, agent_cache |-> [loaded |-> FALSE, agents |-> <<>>],
     listing |-> <<>>, message |-> ""]

\* _load_thread_state(thread_id): the thread becomes the current one and
\* its agent and history are fetched; nothing is written.
load_thread_state(t, store, thread_id) ==
    [t EXCEPT !.thread_id = thread_id,
              !.agent_id = client_get_thread_agent(store, <<t.session_id, thread_id>>)]

\* The command leaves the store as `store`.
StoreBecomes(store) ==
    /\ threads' = store.threads
    /\ settings' = store.settings
    /\ msgs' = store.msgs

\* on_mount: the first listed thread becomes the current one, or "default"
\* is created when the session has none.  The order of the listing is the
\* store's: any listed thread may be the first.
tui_on_mount ==
    /\ ~tui.mounted
    /\ LET mounted == [tui EXCEPT !.mounted = TRUE, !.session_id = TuiSession]
           listed == client_list_threads(Store, TuiSession)
       IN  IF listed # {}
           THEN \E first \in listed :
                   /\ tui' = load_thread_state(mounted, Store, first)
                   /\ StoreBecomes(Store)
           ELSE LET created == client_create_thread(Store, <<TuiSession, "default">>)
                IN  /\ tui' = load_thread_state(mounted, created, "default")
                    /\ StoreBecomes(created)
    /\ resp' = [op |-> "tui_on_mount", status |-> 200]
    /\ UNCHANGED <<fs, registry, env, sessionModel, turns>>

\* /thread new [id]: an id that generate_thread_id() picks is an id the
\* session does not hold, as an explicit one may be.
tui_thread_new(new_id) ==
    /\ tui.mounted
    /\ IF new_id \in client_list_threads(Store, tui.session_id)
       THEN /\ tui' = [tui EXCEPT !.message = "already exists"]
            /\ StoreBecomes(Store)
       ELSE LET created == client_create_thread(Store, <<tui.session_id, new_id>>)
            IN  /\ tui' = [load_thread_state(tui, created, new_id)
                             EXCEPT !.message = "Created thread"]
                /\ StoreBecomes(created)
    /\ resp' = [op |-> "tui_thread_new", thread |-> new_id, status |-> 200]
    /\ UNCHANGED <<fs, registry, env, sessionModel, turns>>

\* /thread <id>: _switch_thread(target, created=not _thread_exists(target))
tui_thread_switch(target) ==
    /\ tui.mounted
    /\ IF target = tui.thread_id
       THEN tui' = [tui EXCEPT !.message = "Already on thread"]
       ELSE tui' = [load_thread_state(tui, Store, target)
                      EXCEPT !.message =
                         IF target \in client_list_threads(Store, tui.session_id)
                         THEN "Switched to thread" ELSE "Created thread"]
    /\ StoreBecomes(Store)
    /\ resp' = [op |-> "tui_thread_switch", thread |-> target, status |-> 200]
    /\ UNCHANGED <<fs, registry, env, sessionModel, turns>>

\* /thread delete <id>: _delete_thread(thread_id)
tui_thread_delete(thread_id) ==
    /\ tui.mounted
    /\ LET listed == client_list_threads(Store, tui.session_id)
           deleted == client_delete_thread(Store, <<tui.session_id, thread_id>>)
           remaining == listed \ {thread_id}
       IN  IF thread_id \notin listed
           THEN /\ tui' = [tui EXCEPT !.message = "not found"]
                /\ StoreBecomes(Store)
           ELSE IF thread_id # tui.thread_id
           THEN /\ tui' = [tui EXCEPT !.message = "Deleted thread"]
                /\ StoreBecomes(deleted)
           ELSE IF remaining # {}
           THEN \E first \in remaining :
                   /\ tui' = [load_thread_state(tui, deleted, first)
                                EXCEPT !.message = "Deleted, switched"]
                   /\ StoreBecomes(deleted)
           ELSE LET created == client_create_thread(deleted,
                                                    <<tui.session_id, "default">>)
                IN  /\ tui' = [load_thread_state(tui, created, "default")
                                 EXCEPT !.message = "Deleted, created default"]
                    /\ StoreBecomes(created)
    /\ resp' = [op |-> "tui_thread_delete", thread |-> thread_id, status |-> 200]
    /\ UNCHANGED <<fs, registry, env, sessionModel, turns>>

\* _load_agents(): the cache, filled from GET /agents the first time.
load_agents(t) ==
    IF t.agent_cache.loaded THEN t.agent_cache
    ELSE [loaded |-> TRUE, agents |-> client_list_agents]

\* The agents /agent list <query> prints, in the order it numbers them
\* from 1: `needle in agent_id.lower() or needle in name.lower()`.
agent_matches(agents, query) ==
    LET needle == Lower(query)
        matching(a) == \/ Contains(Lower(a[1]), needle)
                       \/ Contains(Lower(a[2]), needle)
    IN  IF query # <<>> THEN SelectSeq(agents, matching) ELSE agents

\* /agent list [filter]; listing is the ids of the numbered lines.
tui_agent_list(query) ==
    /\ tui.mounted
    /\ LET cache == load_agents(tui)
           matches == agent_matches(cache.agents, query)
           shown == SubSeq(matches, 1, IF Len(matches) < Limit THEN Len(matches)
                                       ELSE Limit)
       IN  tui' = [tui EXCEPT !.agent_cache = cache,
                              !.listing = [i \in 1..Len(shown) |-> shown[i][1]],
                              !.message = IF matches = <<>> THEN "No agents found"
                                          ELSE "Agents"]
    /\ resp' = [op |-> "tui_agent_list", query |-> query, status |-> 200]
    /\ UNCHANGED <<fs, registry, env, settings, sessionModel, threads, msgs, turns>>

\* str.isdigit and int() on decimal digits
DigitValue(c) ==
    CASE c = "0" -> 0 [] c = "1" -> 1 [] c = "2" -> 2 [] c = "3" -> 3
      [] c = "4" -> 4 [] c = "5" -> 5 [] c = "6" -> 6 [] c = "7" -> 7
      [] c = "8" -> 8 [] c = "9" -> 9 [] OTHER -> -1

isdigit(value) ==
    value # <<>> /\ \A i \in 1..Len(value) : DigitValue(value[i]) >= 0

RECURSIVE int(_)
int(value) ==
    IF value = <<>> THEN 0
    ELSE 10 * int(SubSeq(value, 1, Len(value) - 1)) + DigitValue(value[Len(value)])

\* _resolve_agent_id(value): a number is an index into _load_agents().
resolve_agent_id(t, value) ==
    LET v == Strip(value)
        agents == load_agents(t).agents
    IN  IF v = <<>> THEN [id |-> None, message |-> "Usage"]
        ELSE IF isdigit(v)
        THEN IF int(v) <= 0
             THEN [id |-> None, message |-> "Agent number must be >= 1."]
             ELSE IF int(v) > Len(agents)
             THEN [id |-> None, message |-> "Agent number out of range"]
             ELSE [id |-> agents[int(v)][1], message |-> ""]
        ELSE [id |-> v, message |-> ""]

\* /agent set <agent-id|number> and /agent <agent-id|number>
tui_agent_set(value) ==
    /\ tui.mounted
    /\ LET r == resolve_agent_id(tui, value)
           cached == IF isdigit(Strip(value)) /\ int(Strip(value)) > 0
                     THEN [tui EXCEPT !.agent_cache = load_agents(tui)] ELSE tui
           k == <<tui.session_id, tui.thread_id>>
           put == client_set_thread_agent(Store, k, r.id)
       IN  IF r.id = None
           THEN /\ tui' = [cached EXCEPT !.message = r.message]
                /\ StoreBecomes(Store)
                /\ resp' = [op |-> "tui_agent_set", value |-> value,
                            status |-> "rejected"]
           ELSE IF ~put.ok
           THEN /\ tui' = [cached EXCEPT !.message = "Failed to set agent"]
                /\ StoreBecomes(Store)
                /\ resp' = [op |-> "tui_agent_set", value |-> value,
                            status |-> "failed"]
           ELSE /\ tui' = [cached EXCEPT !.agent_id = put.agent,
                                         !.message = "Agent set"]
                /\ StoreBecomes(put.store)
                /\ resp' = [op |-> "tui_agent_set", value |-> value,
                            status |-> "set"]
    /\ UNCHANGED <<fs, registry, env, sessionModel, turns>>

\* /agent default and /agent reset: _set_thread_agent(None)
tui_agent_default ==
    /\ tui.mounted
    /\ LET k == <<tui.session_id, tui.thread_id>>
           put == client_set_thread_agent(Store, k, None)
       IN  /\ tui' = [tui EXCEPT !.agent_id = put.agent,
                                 !.message = "Agent reset to default"]
           /\ StoreBecomes(put.store)
    /\ resp' = [op |-> "tui_agent_default", status |-> "set"]
    /\ UNCHANGED <<fs, registry, env, sessionModel, turns>>

\* What the user types after /agent list and after /agent set.
AgentQueries == {s_empty, s_be, s_a, s_zz}

AgentValues == {<<"0">>, <<"1">>, <<"2">>, <<"3">>, s_beta, s_zz}

\* The terminal client started on a server whose session holds no thread
\* or two.
InitTui ==
    /\ registry = RegistryAB
    /\ env = NoEnv
    /\ settings = [k \in TuiKeys |-> None]
    /\ sessionModel = [s \in Sessions |-> None]
    /\ threads \in {{}, {<<TuiSession, "t1">>, <<TuiSession, "t2">>}}
    /\ msgs = [k \in TuiKeys |-> <<>>]
    /\ turns = <<>>
    /\ resp = NoResponse
    /\ fs = NoFiles
    /\ tui = TuiBefore

NextTui ==
    \/ tui_on_mount
    \/ \E id \in TuiThreads : tui_thread_new(id)
    \/ \E id \in TuiThreads : tui_thread_switch(id)
    \/ \E id \in TuiThreads : tui_thread_delete(id)
    \/ \E query \in AgentQueries : tui_agent_list(query)
    \/ \E value \in AgentValues : tui_agent_set(value)
    \/ tui_agent_default

SpecTui == InitTui /\ [][NextTui]_vars

\* Chat turns next to the routes that read and set the session model and
\* the thread agent, on a store that holds a thread whose agent is not the
\* default.
InitChatModels ==
    /\ registry = RegistryAB
    /\ env = NoEnv
    /\ settings = [k \in Keys |-> IF k = <<"s1", "t1">> THEN s_beta ELSE None]
    /\ sessionModel = [s \in Sessions |-> None]
    /\ threads = {<<"s1", "t1">>}
    /\ msgs = [k \in Keys |-> <<>>]
    /\ turns = <<>>
    /\ resp = NoResponse
    /\ fs = NoFiles
    /\ tui = NoTui

NextChatModels ==
    \/ \E s \in Sessions : api_get_session_model(s)
    \/ \E s \in Sessions, requested \in {None, s_m1} :
          api_set_session_model(s, requested)
    \/ \E k \in ChatKeys, agent \in ThreadAgents : api_set_thread_agent(k, agent)
    \/ \E k \in ChatKeys :
          Len(turns) < MaxLifecycleTurns /\ ChatStart(k, "new_only", TRUE)
    \/ \E t \in 1..Len(turns) : ChatComplete(t, 1)

SpecChatModels == InitChatModels /\ [][NextChatModels]_vars

\* Every writer of the store, on a store that already holds three threads
\* in two sessions: two with a history, one with an agent, and both sessions
\* with a model.
StoredHistory == <<UserMsg(0), Msg(2, "assistant")>>

WriteKeys == {<<"s1", "t1">>, <<"s2", "t1">>}

InitWrites ==
    /\ registry = RegistryABBe
    /\ env = NoEnv
    /\ settings = [k \in Keys |-> IF k = <<"s1", "t2">> THEN s_alpha ELSE None]
    /\ sessionModel = [s \in Sessions |-> IF s = "s1" THEN s_m2 ELSE s_m1]
    /\ threads = Keys
    /\ msgs = [k \in Keys |-> IF k = <<"s2", "t1">> THEN <<>> ELSE StoredHistory]
    /\ turns = <<>>
    /\ resp = NoResponse
    /\ fs = NoFiles
    /\ tui = NoTui

NextWrites ==
    \/ \E k \in WriteKeys : api_delete_thread(k)
    \/ \E k \in WriteKeys : api_clear_thread(k)
    \/ \E k \in WriteKeys, agent \in ThreadAgents : api_set_thread_agent(k, agent)
    \/ \E s \in Sessions : api_set_session_model(s, None)
    \/ \E k \in WriteKeys :
          Len(turns) < MaxLifecycleTurns /\ ChatStart(k, "new_only", TRUE)
    \/ \E t \in 1..Len(turns) : ChatComplete(t, 1)

SpecWrites == InitWrites /\ [][NextWrites]_vars

\* The two chat entry points on a store that holds a conversation: every
\* shape of request to either of them.
\* What thread (s1, t1) holds at the start: nothing yet, a question and its
\* answer, or the same under a system prompt.
StoredHistories ==
    {<<>>, StoredHistory, <<SystemMsg(0)>> \o StoredHistory}

InitHistory ==
    /\ registry = RegistryAB
    /\ env = NoEnv
    /\ settings = [k \in Keys |-> None]
    /\ sessionModel = [s \in Sessions |-> None]
    /\ threads = {<<"s1", "t1">>}
    /\ \E stored \in StoredHistories :
         msgs = [k \in Keys |-> IF k = <<"s1", "t1">> THEN stored ELSE <<>>]
    /\ turns = <<>>
    /\ resp = NoResponse
    /\ fs = NoFiles
    /\ tui = NoTui

NextHistory ==
    \/ \E k \in ChatKeys, shape \in PayloadShapes, create_ok \in BOOLEAN :
          Len(turns) < MaxLifecycleTurns /\ ag_ui(k, shape, create_ok)
    \/ \E k \in ChatKeys, shape \in PayloadShapes, create_ok \in BOOLEAN :
          Len(turns) < MaxLifecycleTurns /\ ChatStart(k, shape, create_ok)
    \/ \E t \in 1..Len(turns), count \in NewCounts : ChatComplete(t, count)

SpecHistory == InitHistory /\ [][NextHistory]_vars

\* ------------------------------------------------------- chat history
\* The message ids of a history.
Ids(h) == {h[i].id : i \in 1..Len(h)}

\* No message occurs twice in a history.
NoDup(h) == \A i, j \in 1..Len(h) : h[i].id = h[j].id => i = j

IsPrefix(a, b) == Len(a) <= Len(b) /\ SubSeq(b, 1, Len(a)) = a

\* Turn t's run completes in this step: on_complete runs.
Completes(t) ==
    /\ t \in 1..Len(turns)
    /\ turns[t].pc = "streaming"
    /\ turns'[t].pc = "done"

\* Turn t's handler runs in this step and the stream is started.
Starts(t) == t = Len(turns) + 1 /\ Len(turns') = t

\* Turn t's run is cancelled or fails in this step.
Aborts(t) ==
    /\ t \in 1..Len(turns)
    /\ turns[t].pc = "streaming"
    /\ turns'[t].pc = "aborted"

\* What turn t brought to the thread: its incoming and its new messages.
Contribution(turn) == Ids(turn.incoming) \cup Ids(turn.new)

\* C1: turns on one thread do not overwrite each other: when a turn of a
\* stateless client (user-only incoming) completes on a thread whose
\* persisted history holds what an earlier completed turn on that thread
\* brought, the history persisted by this completion still holds it,
\* together with the completing turn's own messages.
C1_NoLostUpdate ==
    [][\A t1, t2 \in 1..Len(turns) :
          (/\ t1 # t2
           /\ Completes(t2)
           /\ turns[t1].pc = "done"
           /\ turns[t1].key = turns[t2].key
           /\ ~incoming_has_history(turns[t2].incoming)
           /\ Contribution(turns[t1]) \subseteq Ids(msgs[turns[t2].key])) =>
              /\ Contribution(turns[t1]) \subseteq Ids(msgs'[turns[t2].key])
              /\ Contribution(turns'[t2]) \subseteq Ids(msgs'[turns[t2].key])]_vars

\* C2 as stated: no persisted history ever holds a message twice.
C2_Original == \A k \in Keys : NoDup(msgs[k])

\* A turn whose request does not repeat what its history base already
\* holds: the request carries an assistant or system message (the base is
\* then empty), or none of its messages is in the stored history it loaded.
NoRepeat(turn) == Ids(turn.incoming) \cap Ids(turn.history) = {}

\* C2 (amended): as long as no user-only request repeats a message of the
\* stored history its turn loaded, no persisted history holds a message
\* twice; a request carrying an assistant or system message never has the
\* stored history put before it.
C2_NoDuplicateHistory ==
    /\ \A t \in 1..Len(turns) :
          incoming_has_history(turns[t].incoming) => turns[t].history = <<>>
    /\ (\A t \in 1..Len(turns) : NoRepeat(turns[t])) =>
          \A k \in Keys : NoDup(msgs[k])

\* A client resent the whole stored history (it holds an assistant message)
\* with a new user message; the stored history was not put before it and
\* the persisted result holds every message once.
C2_Witness ==
    \E t \in 1..Len(turns) :
       /\ turns[t].pc = "done"
       /\ Len(turns[t].incoming) >= 3
       /\ incoming_has_history(turns[t].incoming)
       /\ turns[t].history = <<>>
       /\ msgs[turns[t].key] = turns[t].incoming \o turns[t].new
       /\ NoDup(msgs[turns[t].key])
       /\ \A u \in 1..Len(turns) : NoRepeat(turns[u])

\* C3 as stated, for a turn whose thread nobody wrote between its load and
\* its completion: the history persisted before the completion is a prefix
\* of the history persisted by it.
C3_Original ==
    [][\A t \in 1..Len(turns) :
          (Completes(t) /\ msgs[turns[t].key] = turns[t].loaded) =>
             IsPrefix(msgs[turns[t].key], msgs'[turns[t].key])]_vars

\* C3 (amended): a turn whose incoming messages are all user messages
\* persists an extension of the history it loaded: the loaded history is
\* the history stored when the handler ran, it is the base of the merge, and
\* it is a prefix of what the completion persists.  A turn whose incoming
\* messages hold an assistant or system message persists its incoming and
\* new messages alone.
C3_UserOnlyTurnExtendsLoaded ==
    [][/\ \A t \in 1..Len(turns) :
            Completes(t) =>
               IF incoming_has_history(turns[t].incoming)
               THEN msgs'[turns[t].key] = turns'[t].incoming \o turns'[t].new
               ELSE /\ IsPrefix(turns[t].loaded, msgs'[turns[t].key])
                    /\ Len(msgs'[turns[t].key]) =
                          Len(turns[t].loaded) + Len(turns'[t].incoming)
                             + Len(turns'[t].new)
       /\ \A t \in 1..Len(turns') :
            Starts(t) => turns'[t].loaded = msgs[turns'[t].key]]_vars

\* A user-only turn on a thread with a stored history completed and the
\* thread holds the stored history followed by the turn's messages.
C3_Witness ==
    \E t \in 1..Len(turns) :
       /\ turns[t].pc = "done"
       /\ turns[t].loaded # <<>>
       /\ ~incoming_has_history(turns[t].incoming)
       /\ turns[t].new # <<>>
       /\ msgs[turns[t].key] = turns[t].history \o turns[t].incoming \o turns[t].new

C5_SingleOverwritePerTurn ==
    [][/\ \A k \in Keys :
            msgs'[k] # msgs[k] =>
               \/ /\ resp'.op = "chat_complete"
                  /\ \E t \in 1..Len(turns) :
                        /\ Completes(t)
                        /\ turns[t].key = k
                        /\ \A u \in 1..Len(turns) : Completes(u) => u = t
                        /\ msgs'[k] = merge_messages(turns'[t].history,
                                         turns'[t].incoming, turns'[t].new)
               \/ /\ resp'.op \in {"clear_thread", "delete_thread"}
                  /\ resp'.key = k
                  /\ msgs'[k] = <<>>
       /\ \A t \in 1..Len(turns) :
            /\ Completes(t) => \A k \in Keys : k # turns[t].key => msgs'[k] = msgs[k]
            /\ turns[t].pc # "streaming" => turns'[t] = turns[t]]_vars

\* A turn completed over a non-empty history and the thread holds exactly
\* its merge.
C5_Witness ==
    \E t \in 1..Len(turns) :
       /\ resp.op = "chat_complete"
       /\ resp.turn = t
       /\ turns[t].history # <<>>
       /\ turns[t].new # <<>>
       /\ msgs[turns[t].key] = merge_messages(turns[t].history,
                                  turns[t].incoming, turns[t].new)

AgentIds == DOMAIN registry.agents

\* C7: when the stored ThreadSettings.agent of a thread is no key of the
\* registry (a removed plugin's id, a display name, a fragment, blank or
\* unset), resolution answers the registry default with is_default true and
\* the route succeeds; no fuzzy match of the stored value is taken.
C7_StaleAgentFallsBack ==
    /\ \A k \in Keys :
         settings[k] \notin AgentIds =>
            resolve_agent_plugin(registry, settings, k)
               = <<registry.default_agent, registry.agents[registry.default_agent]>>
    /\ (resp.op = "get_thread_agent" /\ settings[resp.key] \notin AgentIds) =>
         /\ resp.status = 200
         /\ resp.agent = registry.default_agent
         /\ resp.is_default

\* The display name "Beta" is stored, fuzzily it would name beta, and the
\* route answered alpha, the default.
C7_Witness ==
    /\ resp.op = "get_thread_agent"
    /\ registry = RegistryAB
    /\ settings[resp.key] = s_Beta
    /\ FuzzyMatches(registry, s_Beta) = {s_beta}
    /\ resp.agent = s_alpha

\* C8: in every store state the selection names a registered agent together
\* with that agent's plugin, and is_default is true exactly when the agent
\* is the registry default.
C8_SelectionIsRegistered ==
    /\ \A k \in Keys :
         LET r == resolve_agent_plugin(registry, settings, k)
         IN  r[1] \in AgentIds /\ r[2] = registry.agents[r[1]]
    /\ resp.op = "get_thread_agent" =>
         /\ resp.agent \in AgentIds
         /\ resp.agent_name = registry.agents[resp.agent].name
         /\ resp.default_agent = registry.default_agent
         /\ resp.is_default <=> (resp.agent = registry.default_agent)

\* A valid stored id that is not the default is selected, is_default false.
C8_Witness ==
    /\ resp.op = "get_thread_agent"
    /\ settings[resp.key] = s_beta
    /\ registry.default_agent = s_alpha
    /\ resp.agent = s_beta
    /\ ~resp.is_default

\* The stripped request of the last PUT .../agent.
LastRequested(r) == StripRequested(r.requested)

\* C9: a non-blank request that is no id and fuzzily matches exactly one
\* plugin persists that plugin's id, not the text requested; and whatever a
\* step writes to a thread's stored agent is None or a key of the registry
\* at that moment.
C9_PersistsResolvedId ==
    [][/\ \A k \in Keys :
            settings'[k] # settings[k] =>
               settings'[k] = None \/ settings'[k] \in AgentIds
       /\ (/\ resp'.op = "set_thread_agent"
           /\ Truthy(LastRequested(resp'))
           /\ LastRequested(resp') \notin AgentIds
           /\ Cardinality(FuzzyMatches(registry, LastRequested(resp'))) = 1) =>
              /\ resp'.status = 200
              /\ settings'[resp'.key] \in FuzzyMatches(registry, LastRequested(resp'))
              /\ settings'[resp'.key] # LastRequested(resp')
              /\ settings'[resp'.key] # resp'.requested]_vars

\* " be " was requested, is no id, matches beta alone, and beta is stored.
C9_Witness ==
    /\ resp.op = "set_thread_agent"
    /\ resp.requested = s_be_padded
    /\ registry = RegistryAB
    /\ resp.status = 200
    /\ settings[resp.key] = s_beta

\* The number of registered agents the request matches without regard to
\* case.
MatchCount(reg, q) == Cardinality(FuzzyMatches(reg, q))

\* C10 as stated: every non-blank request matching zero or at least two
\* plugins is refused with 400 and leaves the stored agent as it was.
C10_Original ==
    [][(/\ resp'.op = "set_thread_agent"
        /\ Truthy(LastRequested(resp'))
        /\ MatchCount(registry, LastRequested(resp')) # 1) =>
           /\ resp'.status = 400
           /\ settings' = settings]_vars

\* C10 (amended): every non-blank request that is not itself a registered
\* id and matches zero or at least two plugins is refused with 400, and the
\* stored agent of every thread, and the set of threads, is as it was.
C10_UnknownOrAmbiguousRefused ==
    [][(/\ resp'.op = "set_thread_agent"
        /\ Truthy(LastRequested(resp'))
        /\ LastRequested(resp') \notin AgentIds
        /\ MatchCount(registry, LastRequested(resp')) # 1) =>
           /\ resp'.status = 400
           /\ settings' = settings
           /\ threads' = threads]_vars

\* "a" matches alpha and beta; the request was refused and the thread still
\* holds the agent set before.
C10_Witness ==
    /\ resp.op = "set_thread_agent"
    /\ resp.requested = s_a
    /\ MatchCount(registry, s_a) >= 2
    /\ resp.status = 400
    /\ settings[resp.key] = s_beta

\* The response r answers a PUT .../agent whose request was None, empty or
\* whitespace only.
IsReset(r) == r.op = "set_thread_agent" /\ ~Truthy(LastRequested(r))

\* C11: resetting the thread agent is idempotent: from any state a PUT with
\* a None, empty or blank agent succeeds, leaves the thread's stored agent
\* None and every other thread's as it was, and answers the registry default
\* with is_default true; a second reset of the same thread right after it
\* leaves the same store and gives the same answer.
C11_ResetIsIdempotent ==
    [][/\ IsReset(resp') =>
            /\ resp'.status = 200
            /\ settings'[resp'.key] = None
            /\ \A k \in Keys : k # resp'.key => settings'[k] = settings[k]
            /\ resp'.agent = registry.default_agent
            /\ resp'.agent_name = registry.agents[registry.default_agent].name
            /\ resp'.is_default
       /\ (IsReset(resp) /\ IsReset(resp') /\ resp'.key = resp.key) =>
            /\ settings' = settings
            /\ threads' = threads
            /\ resp'.agent = resp.agent
            /\ resp'.agent_name = resp.agent_name
            /\ resp'.default_agent = resp.default_agent
            /\ resp'.is_default = resp.is_default]_vars

\* A whitespace-only request reset a thread under a registry whose default
\* is beta: nothing is stored and beta is answered as the default.
C11_Witness ==
    /\ IsReset(resp)
    /\ resp.requested = s_blank
    /\ registry = RegistryABBe
    /\ settings[resp.key] = None
    /\ resp.agent = s_beta
    /\ resp.is_default

\* C12: a successful PUT .../agent and the selection that follows it agree:
\* right after the PUT, resolve_agent_plugin on the same thread and registry
\* gives the agent the PUT answered, that agent is the one the request
\* resolved to, and is_default says whether it is the registry default; a
\* GET .../agent of the thread as the next request answers the same.
C12_SetSelectRoundTrip ==
    [][/\ (resp'.op = "set_thread_agent" /\ resp'.status = 200) =>
            LET r == resolve_agent_plugin(registry', settings', resp'.key)
            IN  /\ r[1] = resp'.agent
                /\ r[2].name = resp'.agent_name
                /\ resp'.is_default <=> (r[1] = registry'.default_agent)
                /\ Truthy(LastRequested(resp')) =>
                      r[1] = resolve_id(registry, LastRequested(resp'), TRUE)
       /\ (/\ resp.op = "set_thread_agent"
           /\ resp.status = 200
           /\ resp'.op = "get_thread_agent"
           /\ resp'.key = resp.key) =>
              /\ resp'.agent = resp.agent
              /\ resp'.agent_name = resp.agent_name
              /\ resp'.is_default = resp.is_default]_vars

\* Scenario A: under {alpha (default), beta} the request "be" was answered
\* with beta, is_default false, and the selection of that thread is beta.
C12_Witness ==
    /\ resp.op = "set_thread_agent"
    /\ resp.requested = s_be
    /\ registry = RegistryAB
    /\ resp.status = 200
    /\ resp.agent = s_beta
    /\ ~resp.is_default
    /\ resolve_agent_plugin(registry, settings, resp.key)[1] = s_beta

\* ----------------------------------------------------------- resolve_id
\* C13: resolve_id gives an exact id priority: a query that is a registered
\* id is returned as it is, with and without allow_fuzzy, also when it is a
\* case-insensitive substring of other agents' ids or names; without
\* allow_fuzzy every query that is no registered id gives None.
C13_ExactIdFirst ==
    /\ \A q \in Queries, f \in BOOLEAN :
         /\ q \in AgentIds => resolve_id(registry, q, f) = q
         /\ (q \notin AgentIds /\ ~f) => resolve_id(registry, q, f) = None
    /\ resp.op = "resolve_id" =>
         /\ resp.query \in AgentIds => resp.result = resp.query
         /\ (resp.query \notin AgentIds /\ ~resp.allow_fuzzy) => resp.result = None

\* "be" is an id and also a substring of the id "beta"; the fuzzy call
\* returned "be".
C13_Witness ==
    /\ resp.op = "resolve_id"
    /\ resp.allow_fuzzy
    /\ resp.query = s_be
    /\ {s_be, s_beta} \subseteq FuzzyMatches(registry, s_be)
    /\ resp.result = s_be

\* C14: with allow_fuzzy and no exact id, resolve_id returns an id only
\* when exactly one registered agent matches the query without regard to
\* case by a substring of its id or name, and then that agent's id; with no
\* or several matching agents it returns None; and the same is returned for
\* every order the agents could have been registered in.
C14_FuzzyUniqueOrNone ==
    /\ \A q \in Queries :
         q \notin AgentIds =>
            /\ MatchCount(registry, q) = 1 =>
                  resolve_id(registry, q, TRUE) \in FuzzyMatches(registry, q)
            /\ MatchCount(registry, q) # 1 => resolve_id(registry, q, TRUE) = None
            /\ \A reg \in Reordered(registry) :
                  resolve_id(reg, q, TRUE) = resolve_id(registry, q, TRUE)
    /\ (resp.op = "resolve_id" /\ resp.allow_fuzzy /\ resp.query \notin AgentIds) =>
         IF MatchCount(registry, resp.query) = 1
         THEN resp.result \in FuzzyMatches(registry, resp.query)
         ELSE resp.result = None

\* "a" is in "alpha" and in "Beta Agent"; beta was registered first; the
\* fuzzy call returned None.
C14_Witness ==
    /\ resp.op = "resolve_id"
    /\ resp.allow_fuzzy
    /\ resp.query = s_a
    /\ registry.order[1] = s_beta
    /\ FuzzyMatchList(registry, s_a) = <<s_beta, s_alpha>>
    /\ resp.result = None

\* ------------------------------------------------------- default model
\* A value that is set and is not blank.
NonBlank(v) == v # None /\ Strip(v) # <<>>

\* The first non-blank of AGENT_MODEL and LATTICE_MODEL, in that order.
EnvOverride(e) ==
    IF NonBlank(e.AGENT_MODEL) THEN Strip(e.AGENT_MODEL)
    ELSE IF NonBlank(e.LATTICE_MODEL) THEN Strip(e.LATTICE_MODEL)
    ELSE None

\* The precedence (a) to (d) of the default model.
DefaultModelByPrecedence(e, plugin) ==
    IF NonBlank(plugin.default_model) THEN Strip(plugin.default_model)
    ELSE IF EnvOverride(e) # None THEN EnvOverride(e)
    ELSE IF /\ plugin.list_models.present
            /\ ~plugin.list_models.raises
            /\ plugin.list_models.models # <<>>
         THEN plugin.list_models.models[1]
         ELSE <<>>

\* The plugin a model response was computed for: the one the service was
\* called with, the registry default in the routes.
ResponsePlugin(r) ==
    IF r.op \in {"select_session_model", "set_session_model"}
    THEN registry.agents[r.plugin]
    ELSE registry.agents[registry.default_agent]

\* The response carries a default_model.
HasDefaultModel(r) ==
    \/ r.op \in {"list_models", "get_session_model", "select_session_model"}
    \/ r.op = "set_session_model" /\ ~r.raised
    \/ r.op = "api_set_session_model" /\ r.status = 200

\* C15: the default model every model route and model service answers is
\* the one the precedence gives for its plugin: (a) the plugin's
\* default_model if not blank, else (b) the first non-blank of AGENT_MODEL
\* and LATTICE_MODEL in that order, else (c) the first model the plugin
\* lists, else (d) the empty string.
C15_DefaultModelPrecedence ==
    HasDefaultModel(resp) =>
       resp.default_model = DefaultModelByPrecedence(env, ResponsePlugin(resp))

\* C16: a list_models that raises is swallowed: neither resolve_default_model
\* nor the guarded listing gives an exception for any registered plugin, a
\* raising plugin lists as no models, GET /models answers 200, and for every
\* thread the agent resolves to a registered plugin and the model name of a
\* chat turn is computed.
C16_ListModelsFailureSwallowed ==
    /\ \A id \in AgentIds :
         LET plugin == registry.agents[id]
         IN  /\ resolve_default_model(env, plugin) # Raised
             /\ services_resolve_default_model(env, plugin) # Raised
             /\ plugin.list_models.raises =>
                   /\ try_list_models(plugin) = <<>>
                   /\ list_models(plugin) = <<>>
    /\ resp.op = "list_models" =>
         /\ resp.status = 200
         /\ resp.default_model # Raised
         /\ registry.agents[registry.default_agent].list_models.raises =>
               resp.models = <<>>
    /\ \A k \in Keys :
         /\ resolve_agent_plugin(registry, settings, k)[1] \in AgentIds
         /\ chat_model_name(registry, settings, sessionModel, env, k) # Raised

\* The default plugin's list_models raises and nothing else names a model:
\* GET /models answered 200 with no models and the empty default, and the
\* thread whose agent is that plugin gets the empty model name.
C16_Witness ==
    /\ resp.op = "list_models"
    /\ registry.agents[registry.default_agent].list_models.raises
    /\ resp.status = 200
    /\ resp.models = <<>>
    /\ resp.default_model = <<>>
    /\ resolve_agent_plugin(registry, settings, <<"s1", "t1">>)[2].list_models.raises
    /\ sessionModel["s1"] = None
    /\ chat_model_name(registry, settings, sessionModel, env, <<"s1", "t1">>) = <<>>

\* C17: select_session_model answers the stored session model when one is
\* stored and not blank, else the plugin's resolved default; default_model is
\* the plugin's resolved default, and is_default is true exactly when the
\* two are equal.
C17_SelectSessionModel ==
    /\ \A s \in Sessions, id \in AgentIds :
         LET plugin == registry.agents[id]
             sel == select_session_model(sessionModel, env, s, plugin)
             default_model == services_resolve_default_model(env, plugin)
         IN  /\ sel.default_model = default_model
             /\ sel.model = IF NonBlank(sessionModel[s]) THEN sessionModel[s]
                            ELSE default_model
             /\ sel.is_default <=> (sel.model = sel.default_model)
    /\ resp.op = "select_session_model" =>
         /\ resp.default_model =
               services_resolve_default_model(env, registry.agents[resp.plugin])
         /\ resp.model = IF NonBlank(sessionModel[resp.session])
                         THEN sessionModel[resp.session]
                         ELSE resp.default_model
         /\ resp.is_default <=> (resp.model = resp.default_model)

\* A session holds m1 while the plugin's default is another model: the
\* stored model is selected, is_default false.
C17_Witness ==
    /\ resp.op = "select_session_model"
    /\ sessionModel[resp.session] = s_m1
    /\ resp.model = s_m1
    /\ resp.default_model = s_m2
    /\ ~resp.is_default

\* The response answers a model setter (service or route).
IsModelSet(r) == r.op \in {"set_session_model", "api_set_session_model"}

\* The setter failed: the service raised, the route answered 400.
ModelSetFailed(r) == IF r.op = "set_session_model" THEN r.raised ELSE r.status = 400

\* C18: a non-blank model the plugin's validate_model rejects makes the
\* setter fail (the service raises, the route answers 400) and leaves every
\* stored session model as it was; and a model is written to the store only
\* by a setter that succeeds, after validate_model, where the plugin has
\* one, was called and accepted it.
C18_RejectedModelNotPersisted ==
    [][/\ IsModelSet(resp') =>
            LET model == StripModel(resp'.requested)
                plugin == ResponsePlugin(resp')
            IN  /\ (Truthy(model) /\ validate_model_raises(plugin, model)) =>
                      /\ ModelSetFailed(resp')
                      /\ resp'.validated
                /\ ModelSetFailed(resp') => sessionModel' = sessionModel
       /\ \A s \in Sessions :
            (sessionModel'[s] # sessionModel[s] /\ sessionModel'[s] # None) =>
               /\ IsModelSet(resp')
               /\ ~ModelSetFailed(resp')
               /\ resp'.session = s
               /\ sessionModel'[s] = StripModel(resp'.requested)
               /\ ~validate_model_raises(ResponsePlugin(resp'), sessionModel'[s])
               /\ resp'.validated = ResponsePlugin(resp').validate_model.present]_vars

\* The route refused a model the default plugin rejects, and the session
\* still holds the override it had.
C18_Witness ==
    /\ resp.op = "api_set_session_model"
    /\ resp.requested = s_zz
    /\ resp.status = 400
    /\ resp.validated
    /\ sessionModel[resp.session] = s_m1

\* C19: a setter called with None, an empty or a whitespace-only model
\* succeeds without calling validate_model, leaves that session without an
\* override and the other sessions as they were, and answers the default
\* with is_default true; select_session_model for that session then gives
\* every plugin's resolved default with is_default true.
C19_BlankClearsOverride ==
    [][(IsModelSet(resp') /\ ~Truthy(StripModel(resp'.requested))) =>
          /\ ~ModelSetFailed(resp')
          /\ ~resp'.validated
          /\ sessionModel'[resp'.session] = None
          /\ \A s \in Sessions :
                s # resp'.session => sessionModel'[s] = sessionModel[s]
          /\ resp'.model = resp'.default_model
          /\ resp'.is_default
          /\ \A id \in AgentIds :
                LET plugin == registry.agents[id]
                    sel == select_session_model(sessionModel', env,
                                                resp'.session, plugin)
                IN  /\ sel.model = services_resolve_default_model(env, plugin)
                    /\ sel.is_default]_vars

\* The service was called with a whitespace-only model for a plugin that
\* has a validate_model: it was not called, and the session has no override.
C19_Witness ==
    /\ resp.op = "set_session_model"
    /\ resp.requested = s_blank
    /\ registry.agents[resp.plugin].validate_model.present
    /\ ~resp.validated
    /\ ~resp.raised
    /\ resp.is_default
    /\ sessionModel[resp.session] = None

\* ------------------------------------------------- history selection
\* Some message of the payload has the role assistant or system.
CarriesHistory(incoming) ==
    \E i \in 1..Len(incoming) : incoming[i].role \in {"assistant", "system"}

\* C20: the history a turn feeds its agent is empty when some incoming
\* message has the role assistant or system, and is the whole stored history
\* of the thread, in its stored order, when every incoming message is a user
\* message or there is none: for the turn a handler starts in a step, and
\* recorded unchanged in every turn.
C20_SelectMessageHistory ==
    [][/\ \A t \in 1..Len(turns') :
            Starts(t) =>
               turns'[t].history =
                  IF CarriesHistory(turns'[t].incoming) THEN <<>>
                  ELSE msgs[turns'[t].key]
       /\ \A t \in 1..Len(turns) :
            /\ turns'[t].history = turns[t].history
            /\ turns[t].history =
                  IF CarriesHistory(turns[t].incoming) THEN <<>>
                  ELSE turns[t].loaded]_vars

\* Scenario D: on a new thread a user-only first turn got the empty stored
\* history and completed; the second turn carries the stored history with
\* its assistant message and got an empty history.
C20_Witness ==
    /\ Len(turns) = 2
    /\ turns[1].key = turns[2].key
    /\ turns[1].pc = "done"
    /\ turns[1].incoming # <<>>
    /\ ~CarriesHistory(turns[1].incoming)
    /\ turns[1].loaded = <<>>
    /\ turns[1].history = <<>>
    /\ turns[2].loaded = turns[1].incoming \o turns[1].new
    /\ \E i \in 1..Len(turns[2].incoming) : turns[2].incoming[i].role = "assistant"
    /\ turns[2].history = <<>>

\* ------------------------------------------------------ thread lifecycle
\* The operations that write the messages of a thread, by their response.
MessageWriters == {"chat_complete", "clear_thread", "delete_thread", "create_thread"}

\* The step is a write to the messages of thread k.
WritesMessages(k) ==
    resp'.op \in MessageWriters /\ resp'.key = k /\ resp'.status = 200

C23_DeleteAbsentNotFound ==
    [][resp'.op = "delete_thread" =>
          LET k == resp'.key
          IN  /\ (resp'.status = 404) = (k[2] \notin list_threads(threads, k[1]))
              /\ resp'.status = 404 =>
                    /\ threads' = threads
                    /\ settings' = settings
                    /\ msgs' = msgs
                    /\ sessionModel' = sessionModel
      ]_vars

\* A delete was refused while the store holds another thread with an agent
\* and a history.
C23_Witness ==
    /\ resp.op = "delete_thread"
    /\ resp.status = 404
    /\ resp.key \notin threads
    /\ \E o \in threads : settings[o] # None /\ msgs[o] # <<>>

\* C24: a deleted thread is gone for good: the step of a successful delete
\* leaves the thread out of the session's list with agent None and no
\* messages, and whenever a thread that is not listed comes into being
\* again it starts with agent None and with nothing of what the store held
\* for it: a create leaves it empty, and a completing turn that brings it
\* back has merged onto an empty stored base.
C24_DeleteIsPermanent ==
    [][/\ (resp'.op = "delete_thread" /\ resp'.status = 200) =>
            LET k == resp'.key
            IN  /\ k[2] \notin list_threads(threads', k[1])
                /\ get_thread_settings(settings', k) = None
                /\ load_thread(msgs', k) = <<>>
       /\ \A k \in Keys :
            (k[2] \notin list_threads(threads, k[1])
               /\ k[2] \in list_threads(threads', k[1])) =>
                /\ resp'.op \in {"create_thread", "chat_complete"} =>
                      get_thread_settings(settings', k) = None
                /\ resp'.op = "create_thread" => load_thread(msgs', k) = <<>>
                /\ \A t \in 1..Len(turns) :
                      (Completes(t) /\ turns[t].key = k) => turns[t].history = <<>>
      ]_vars

\* C25: clearing a thread that the session holds empties its messages and
\* keeps its settings: the stored agent is unchanged, the agent resolved for
\* the thread after the clear is the one resolved before it, and the thread
\* is still in the session's list.
C25_ClearKeepsSettings ==
    [][(resp'.op = "clear_thread" /\ resp'.key[2] \in list_threads(threads, resp'.key[1])) =>
          LET k == resp'.key
          IN  /\ resp'.status = 200
              /\ load_thread(msgs', k) = <<>>
              /\ get_thread_settings(settings', k) = get_thread_settings(settings, k)
              /\ resolve_agent_plugin(registry', settings', k)
                    = resolve_agent_plugin(registry, settings, k)
              /\ k[2] \in list_threads(threads', k[1])
      ]_vars

\* A thread with a history and an agent other than the default was cleared:
\* it holds no messages and still resolves to that agent.
C25_Witness ==
    /\ resp.op = "clear_thread"
    /\ resp.status = 200
    /\ \E t \in 1..Len(turns) : turns[t].key = resp.key /\ turns[t].pc = "done"
    /\ load_thread(msgs, resp.key) = <<>>
    /\ get_thread_settings(settings, resp.key) # None
    /\ resolve_agent_plugin(registry, settings, resp.key)[1] # registry.default_agent

\* C26: clearing a thread that the session does not hold answers 404,
\* writes nothing and does not create the thread: the threads, settings and
\* messages are as they were, and the thread is still not listed.
C26_ClearAbsentNotFound ==
    [][(resp'.op = "clear_thread" /\ resp'.key[2] \notin list_threads(threads, resp'.key[1])) =>
          LET k == resp'.key
          IN  /\ resp'.status = 404
              /\ msgs' = msgs
              /\ settings' = settings
              /\ threads' = threads
              /\ k[2] \notin list_threads(threads', k[1])
      ]_vars

\* A clear was refused for a thread that was deleted after a turn had
\* completed on it, and the thread is still absent.
C26_Witness ==
    /\ resp.op = "clear_thread"
    /\ resp.status = 404
    /\ resp.key \notin threads
    /\ \E t \in 1..Len(turns) : turns[t].key = resp.key /\ turns[t].pc = "done"

\* The store holds something for thread k: an agent or messages.
Stored(k) ==
    get_thread_settings(settings, k) # None \/ load_thread(msgs, k) # <<>>

ThreadScoped ==
    {"chat", "chat_complete", "clear_thread", "delete_thread", "set_thread_agent"}

\* C28: writes are local to their key: a chat request, a completing turn, a
\* clear, a delete or an agent setter on a thread leaves the messages, the
\* settings and the listing of every other thread unchanged, another thread
\* of the same session and the same thread id in another session included;
\* the agent setter also leaves the thread's messages and every session
\* model unchanged; and the session model setter leaves every other
\* session's model and all thread settings and messages unchanged.
C28_WritesAreLocal ==
    [][/\ resp'.op \in ThreadScoped =>
            \A o \in Keys \ {resp'.key} :
               /\ load_thread(msgs', o) = load_thread(msgs, o)
               /\ get_thread_settings(settings', o) = get_thread_settings(settings, o)
               /\ (o \in threads') = (o \in threads)
       /\ resp'.op = "set_thread_agent" =>
            /\ load_thread(msgs', resp'.key) = load_thread(msgs, resp'.key)
            /\ sessionModel' = sessionModel
       /\ resp'.op = "api_set_session_model" =>
            /\ \A s \in Sessions \ {resp'.session} :
                  get_session_model(sessionModel', s) = get_session_model(sessionModel, s)
            /\ settings' = settings
            /\ msgs' = msgs
            /\ threads' = threads
      ]_vars

\* A turn has completed on (s1, t1) and changed its messages while the
\* other thread of the session holds its history and its agent, the thread
\* of the same id in the other session holds an agent of its own, and the
\* other session holds its model after this session's model was cleared.
C28_Witness ==
    /\ resp.op = "chat_complete"
    /\ resp.key = <<"s1", "t1">>
    /\ load_thread(msgs, <<"s1", "t1">>) # StoredHistory
    /\ load_thread(msgs, <<"s1", "t2">>) = StoredHistory
    /\ get_thread_settings(settings, <<"s1", "t2">>) = s_alpha
    /\ get_thread_settings(settings, <<"s2", "t1">>) # None
    /\ get_session_model(sessionModel, "s1") = None
    /\ get_session_model(sessionModel, "s2") = s_m1

\* ---------------------------------------------------------- concurrency
\* Turn t is between the load of its history and on_complete.
InProgress(t) == t \in 1..Len(turns) /\ turns[t].pc = "streaming"

\* C29: turns on different threads do not block each other: in every state
\* where a turn is in progress on a thread, on every other thread, of the
\* same session or of another, a chat request can start (while the
\* behaviour has turns left), every turn in progress there can complete,
\* and a clear, a delete and a read of its messages can run.
C29_OtherThreadsNotBlocked ==
    \A t \in 1..Len(turns) :
       InProgress(t) =>
          \A o \in Keys \ {turns[t].key} :
             /\ Len(turns) < MaxTurns => ENABLED ChatStart(o, "new_only", TRUE)
             /\ \A u \in 1..Len(turns) :
                   (InProgress(u) /\ turns[u].key = o) =>
                       ENABLED ChatComplete(u, 1)
             /\ ENABLED api_clear_thread(o)
             /\ ENABLED api_delete_thread(o)
             /\ ENABLED api_thread_messages(o)

\* A turn is still in progress on one thread while a turn that started
\* after it on another thread has completed and saved.
C29_Witness ==
    \E t, u \in 1..Len(turns) :
       /\ t < u
       /\ InProgress(t)
       /\ turns[u].pc = "done"
       /\ turns[u].key # turns[t].key
       /\ load_thread(msgs, turns[u].key) # <<>>

\* ------------------------------------------------------------ registry
\* The step is a successful agent route.
AgentRouteAnswers ==
    resp'.op \in {"get_thread_agent", "set_thread_agent"} /\ resp'.status = 200

\* C30: the registry a resolution reads has its default_agent among its
\* agents, and one request resolves against one registry: the step of an
\* agent route or of a chat handler does not change the registry, and
\* everything it answers or captures (the default, the agent, its plugin's
\* name, the turn's agent and model) comes from the registry of that step;
\* a replacement swaps in a whole registry in a step of its own, and no
\* step, a replacement included, changes what a turn in flight resolved.
C30_SingleRegistrySnapshot ==
    /\ [](registry.default_agent \in DOMAIN registry.agents)
    /\ [][/\ AgentRouteAnswers =>
               /\ registry' = registry
               /\ resp'.default_agent = registry.default_agent
               /\ resp'.agent \in DOMAIN registry.agents
               /\ resp'.agent_name = registry.agents[resp'.agent].name
               /\ resp'.is_default = (resp'.agent = registry.default_agent)
               /\ resp'.op = "get_thread_agent" =>
                     resp'.agent = resolve_agent_plugin(registry, settings, resp'.key)[1]
          /\ \A t \in 1..Len(turns') :
               Starts(t) =>
                  /\ registry' = registry
                  /\ turns'[t].agent
                        = resolve_agent_plugin(registry, settings, turns'[t].key)[1]
                  /\ turns'[t].model
                        = chat_model_name(registry, settings, sessionModel, env,
                                          turns'[t].key)
          /\ registry' # registry =>
               /\ resp'.op = "replace_registry"
               /\ registry' \in Registries
          /\ \A t \in 1..Len(turns) :
               /\ turns'[t].agent = turns[t].agent
               /\ turns'[t].model = turns[t].model
         ]_vars

\* A turn resolved the beta agent and is still in flight, the registry has
\* since been replaced by one without beta, and GET .../agent of the same
\* thread answers the default of the new registry.
C30_Witness ==
    /\ resp.op = "get_thread_agent"
    /\ resp.agent = registry.default_agent
    /\ \E t \in 1..Len(turns) :
          /\ InProgress(t)
          /\ turns[t].key = resp.key
          /\ turns[t].agent = s_beta
          /\ turns[t].agent \notin DOMAIN registry.agents

\* -------------------------------------------------------------- storage
\* A path with a leading "~" replaced by the home directory.
Expanded(p) == IF p # <<>> /\ p[1] = "~" THEN Home \o Tail(p) ELSE p

\* A call of load_storage_config that returned leaves both directories of
\* its configuration in place, and no call removes or replaces what the
\* filesystem held.
LoadCreatesDirs ==
    /\ (resp'.op = "load_storage_config" /\ resp'.status = "ok") =>
          /\ Kind(fs', resp'.config.data_dir) = "dir"
          /\ Kind(fs', resp'.config.workspace_dir) = "dir"
    /\ resp'.op \in {"load_storage_config", "resolve_storage_config"} =>
          \A q \in DOMAIN fs : q \in DOMAIN fs' /\ fs'[q] = fs[q]

\* C31 as stated: resolve_storage_config leaves the filesystem alone and
\* returns the data_dir and workspace_dir it was passed unchanged, and a
\* load_storage_config that returns leaves both as directories.
C31_Original ==
    [][/\ resp'.op = "resolve_storage_config" =>
             /\ fs' = fs
             /\ resp'.args.data_dir # None =>
                   resp'.config.data_dir = resp'.args.data_dir
             /\ resp'.args.workspace_dir # None =>
                   resp'.config.workspace_dir = resp'.args.workspace_dir
       /\ LoadCreatesDirs
      ]_vars

\* C31 (amended): resolve_storage_config leaves the filesystem alone and
\* returns the data_dir and workspace_dir it was passed with a leading "~"
\* expanded to the home directory, unchanged otherwise, and creates neither
\* directory; a load_storage_config that returns leaves both as directories.
C31_ResolveIsPure ==
    [][/\ resp'.op = "resolve_storage_config" =>
             /\ fs' = fs
             /\ resp'.args.data_dir # None =>
                   resp'.config.data_dir = Expanded(resp'.args.data_dir)
             /\ resp'.args.workspace_dir # None =>
                   resp'.config.workspace_dir = Expanded(resp'.args.workspace_dir)
       /\ LoadCreatesDirs
      ]_vars

\* resolve_storage_config has just answered for directories under "~" that
\* do not exist, and they still do not.
C31_Witness ==
    /\ resp.op = "resolve_storage_config"
    /\ resp.args.data_dir = <<"~", "data">>
    /\ resp.config.data_dir = <<"home", "data">>
    /\ Kind(fs, resp.config.data_dir) = "absent"
    /\ Kind(fs, resp.config.workspace_dir) = "absent"
    /\ Kind(fs, <<"tmp", "workspace">>) = "dir"

\* The step is a call of load_or_create_session_id that returned.
SessionIdReturned ==
    resp'.op = "load_or_create_session_id" /\ resp'.status = "ok"

\* C32: load_or_create_session_id is stable.  With a non-empty override in
\* the environment a call returns the override and leaves the filesystem
\* as it was.  With none, a call that returns on a missing path leaves the
\* parent a directory and the path a file, and returns the stripped text of
\* that file; a call on the file returns its stripped text and does not
\* touch it; no other call changes a session file; and a call right after a
\* call on the same path returns the same id.
C32_SessionIdIsStable ==
    [][/\ SessionIdReturned =>
            LET path == resp'.path
                parent == SubSeq(path, 1, Len(path) - 1)
            IN  IF Truthy(env.LATTICE_SESSION_ID)
                THEN resp'.id = env.LATTICE_SESSION_ID /\ fs' = fs
                ELSE /\ Kind(fs', parent) = "dir"
                     /\ Kind(fs', path) = "file"
                     /\ resp'.id = Strip(fs'[path].text)
                     /\ Kind(fs, path) = "file" => fs' = fs
                     /\ (/\ resp.op = "load_or_create_session_id"
                         /\ resp.status = "ok"
                         /\ resp.path = path) => resp'.id = resp.id
       /\ \A p \in SessionPaths :
            Kind(fs, p) = "file" => (Kind(fs', p) = "file" /\ fs'[p] = fs[p])
      ]_vars

\* Without an override, a call has made the session file under a directory
\* that did not exist, and the call just answered returned the fresh id
\* that the file holds.
C32_Witness ==
    /\ resp.op = "load_or_create_session_id"
    /\ resp.status = "ok"
    /\ resp.path = <<"tmp", "nested", "session_id">>
    /\ ~Truthy(env.LATTICE_SESSION_ID)
    /\ Kind(fs, <<"tmp", "nested">>) = "dir"
    /\ resp.id \in FreshIds
    /\ resp.id = Strip(fs[resp.path].text)

\* ---------------------------------------------------- stale completions
\* C33: messages removed by a clear or a delete do not come back: when a
\* turn completes, every message of the history it loaded from the store
\* that the thread holds after the completion is one the thread still held
\* before it; a message the thread no longer holds is not saved again.
C33_RemovedNeverReappear ==
    [][\A t \in 1..Len(turns) :
          Completes(t) =>
             LET k == turns[t].key
             IN  Ids(turns[t].history) \cap Ids(load_thread(msgs', k))
                    \subseteq Ids(load_thread(msgs, k))
      ]_vars


\* C34 (as stated): the model that GET /sessions/{session_id}/model reports
\* for a session is the model that a chat turn on a thread of that session
\* passes to create_agent: a turn that starts right after the endpoint has
\* answered for its session, with no write in between, carries the model
\* the endpoint reported.
C34_EndpointReportsChatModel ==
    [][\A t \in 1..Len(turns') :
          (/\ Starts(t)
           /\ resp.op = "get_session_model"
           /\ resp.session = turns'[t].key[1])
             => turns'[t].model = resp.model
      ]_vars


\* C35 (as stated): the two resolve_default_model functions agree: the
\* default model that services/models.py answers for a plugin
\* (select_session_model, set_session_model) is the one server/runtime.py
\* resolves for the same plugin under the same AGENT_MODEL and LATTICE_MODEL.
C35_ResolversAgree ==
    (/\ resp.op \in {"select_session_model", "set_session_model"}
     /\ ~resp.raised)
       => resp.default_model =
             resolve_default_model(env, registry.agents[resp.plugin])


\* C36 (as stated): both chat entry points choose the prior history by the
\* same rule applied to the same input: whenever POST /ag-ui has answered a
\* request whose model create_agent accepted, it has started a turn, and the
\* history that turn feeds the agent (the base of what it persists) is the
\* one POST /ui/chat selects for the same request messages and the same
\* stored history.
C36_SameHistoryRule ==
    (resp.op = "ag_ui" /\ resp.status # 400) =>
       /\ resp.turn \in 1..Len(turns)
       /\ turns[resp.turn].history =
             select_message_history(resp.incoming, resp.loaded)


\* ------------------------------------------------- one resolution a turn
\* C37: a chat turn resolves its plugin and its model once, when its
\* handler runs: the turn that starts captures what the store and the
\* registry give at that moment (so a later turn sees a change), no step,
\* a set_thread_agent or a set_session_model included, changes the thread,
\* the agent or the model of a turn that exists, and on_complete saves to
\* the turn's thread and no other and calls the plugin and the model the
\* turn captured.
C37_ResolvedOnce ==
    [][/\ \A t \in 1..Len(turns') :
            Starts(t) =>
               /\ turns'[t].agent
                     = resolve_agent_plugin(registry, settings, turns'[t].key)[1]
               /\ turns'[t].model
                     = chat_model_name(registry, settings, sessionModel, env,
                                       turns'[t].key)
       /\ \A t \in 1..Len(turns) :
            /\ turns'[t].key = turns[t].key
            /\ turns'[t].agent = turns[t].agent
            /\ turns'[t].model = turns[t].model
            /\ Completes(t) =>
                 /\ resp'.key = turns[t].key
                 /\ resp'.agent = turns[t].agent
                 /\ resp'.model = turns[t].model
                 /\ \A k \in Keys : k # turns[t].key => msgs'[k] = msgs[k]
      ]_vars

\* A turn that resolved agent beta and model m2 has completed after the
\* thread's agent and the session's model were both changed: on_complete
\* ran for beta and m2 while a new turn on the thread would get another
\* agent and another model.
C37_Witness ==
    /\ resp.op = "chat_complete"
    /\ resp.agent = s_beta
    /\ resp.model = s_m2
    /\ resolve_agent_plugin(registry, settings, resp.key)[1] # s_beta
    /\ chat_model_name(registry, settings, sessionModel, env, resp.key) # s_m2
    /\ sessionModel[resp.key[1]] # None


\* ------------------------------------------------ stored session models
\* C38: whatever set_session_model calls were made, through the service or
\* the route, the session model the store holds is None or a non-empty
\* string without leading or trailing whitespace, and the model a
\* successful setter or reader answers is never empty because of a stored
\* override: it is the stored model when there is one.
C38_StoredModelNeverBlank ==
    /\ \A s \in Sessions :
          \/ sessionModel[s] = None
          \/ /\ sessionModel[s] # <<>>
             /\ Strip(sessionModel[s]) = sessionModel[s]
    /\ (/\ resp.op \in {"select_session_model", "set_session_model",
                        "get_session_model", "api_set_session_model"}
        /\ "model" \in DOMAIN resp
        /\ sessionModel[resp.session] # None)
          => resp.model = sessionModel[resp.session]

\* A setter asked for a blank model has answered and its session holds
\* None, while a session holds "m2", which no store starts with and which
\* is requested only as the padded " m2 ".
C38_Witness ==
    /\ resp.op \in {"set_session_model", "api_set_session_model"}
    /\ resp.requested = s_blank
    /\ sessionModel[resp.session] = None
    /\ \E s \in Sessions : sessionModel[s] = s_m2


\* ------------------------------------------------------ terminal client
\* C39 (as stated): once the terminal client has started, and after every
\* /thread new, /thread <id> and /thread delete it issues, its current
\* thread is one that list_threads of its session returns.
C39_CurrentThreadIsListed ==
    (/\ tui.mounted
     /\ resp.op \in {"tui_on_mount", "tui_thread_new", "tui_thread_switch",
                     "tui_thread_delete"})
       => tui.thread_id \in list_threads(threads, tui.session_id)

\* C40 (as stated): the number printed beside an agent by the most recent
\* /agent list selects that agent in /agent set <number>: after the
\* command the thread's agent is the one of that line; and a number below
\* 1 or above the number of agents is rejected with a message and leaves
\* the thread's agent as it was.
C40_NumberSelectsListedAgent ==
    [][(resp'.op = "tui_agent_set" /\ isdigit(resp'.value)) =>
          LET n == int(resp'.value)
              k == <<tui.session_id, tui.thread_id>>
          IN  /\ n \in 1..Len(tui.listing) =>
                    resolve_agent_plugin(registry, settings', k)[1]
                       = tui.listing[n]
              /\ (n < 1 \/ n > Len(registry.order)) =>
                    /\ resp'.status = "rejected"
                    /\ tui'.message \in {"Agent number must be >= 1.",
                                         "Agent number out of range"}
                    /\ settings' = settings
      ]_vars

====
